---- MODULE Spec2Model ----
(***************************************************************************)
(* Model of the commitment agent: the polling loop of the agent runner     *)
(* (agentLoop, pollCommitmentChanges, decideOnSignals, callAgent,          *)
(* executeToolCalls, buildOgTransactions, postBondAndPropose, makeDeposit) *)
(* and the DCA agent's step-flag state (dca-agent/agent.js).               *)
(*                                                                         *)
(* Ledger, RPC node and decision service are the environment: every read,  *)
(* write and request outcome is a nondeterministic choice inside the       *)
(* action that performs it.  The chain content (transfer logs per block)   *)
(* is fixed by Init.                                                       *)
(***************************************************************************)
EXTENDS Integers, Sequences, FiniteSets, TLC

\* ------------------------------------------------------------------ bounds
MaxBlock == 3      \* block numbers are 0..MaxBlock
MaxNative == 2     \* native balances of the safe are 0..MaxNative
MaxCalls == 2      \* tool calls in one decision-service response
MaxBond == 1       \* bond amounts, collateral balances and allowances are 0..MaxBond
MaxEvents == 1     \* executed / deleted proposals reported in one onProposalEvents call
MaxActions == 2    \* actions in one build_og_transactions call of SpecBuild
MaxAmount == 2     \* swap input amounts and split amounts are 1..MaxAmount
MaxTicks == 3      \* clock steps of SpecDca
MaxTriggers == 2   \* triggers in the list handed to sanitizeInferredTriggers
MaxInflight == 2   \* getPriceTriggers requests awaiting their answer
MaxScript == 2     \* scripted transport answers to one trading-venue call
MaxRetries == 2    \* config.polymarketClobMaxRetries is 0..MaxRetries
MaxDeposits == 1   \* deposits handed to extractTimelockTriggers

\* ------------------------------------------------------------- vocabulary
Undef == -1        \* JavaScript undefined for a numeric variable
Fail == -2         \* an RPC read / request that rejects (throws)

Assets == {"a1", "a2"}             \* a1 is the OG collateral, a2 a watched asset
Blocks == 0..MaxBlock

VARIABLES
    cfg,                \* config object (src/unnamed/part_001:62-84) after startAgent
    chainLogs,          \* Transfer(to = commitmentSafe) logs on chain: <<asset, block>>
    lastCheckedBlock,   \* part_001:92
    lastNativeBalance,  \* part_001:93
    pc,                 \* position of the agentLoop invocation in progress
    timers,             \* pending setTimeout(agentLoop) callbacks
    active,             \* agentLoop invocations that have started and not finished
    signals,            \* result of pollCommitmentChanges in this cycle
    lastPoll,           \* history: what the last pollCommitmentChanges call saw
    reported,           \* history: logs returned as signals so far
    og,                 \* on-chain parameters of the OG module and its oracle
    resp,               \* the decision-service response callAgent received
    idx,                \* executeToolCalls: index of the tool call being processed
    outputs,            \* executeToolCalls: outputs (line 813)
    builtTransactions,  \* executeToolCalls: builtTransactions (line 815), <<>> = undefined
    pbp,                \* the postBondAndPropose invocation in progress (or the last one)
    writes,             \* history: ledger writes sent in this cycle, in order
    run,                \* history: what happened in this cycle
    dcaState,           \* dca-agent/agent.js:14-21
    lastDcaTimestamp,   \* dca-agent/agent.js:3
    now,                \* Date.now()
    hook,               \* history: the last call of an agent-module function (SpecDca)
    race,               \* price-race triggers: sanitizeInferredTriggers and the selection
    clob,               \* the trading-venue call in progress (part_001:1041-1144)
    timelock,           \* extractTimelockTriggers and the due filter (part_002)
    copyTrade,          \* the copy-trading agent module's state and its last call
    depositTool,        \* the last call of a deposit tool and the writes it sent
    triggerCache        \* getPriceTriggers: the inferred-trigger cache and the last call

chainVars == <<cfg, chainLogs, og>>
pollVars == <<lastCheckedBlock, lastNativeBalance, signals, lastPoll, reported>>
loopVars == <<timers, active>>
execVars == <<resp, idx, outputs, builtTransactions>>
dcaVars == <<dcaState, lastDcaTimestamp, now, hook>>
libVars == <<race, clob, timelock, copyTrade, depositTool, triggerCache>>

vars == <<cfg, chainLogs, lastCheckedBlock, lastNativeBalance, pc, timers, active,
          signals, lastPoll, reported, og, resp, idx, outputs, builtTransactions,
          pbp, writes, run, dcaState, lastDcaTimestamp, now, hook, race, clob, timelock, copyTrade,
          depositTool, triggerCache>>

\* ------------------------------------------------- pollCommitmentChanges
\* Logs of one asset in (from..to), ascending by block: publicClient.getLogs.
RECURSIVE LogsOf(_, _, _)
LogsOf(asset, from, to) ==
    IF from > to THEN <<>>
    ELSE (IF <<asset, from>> \in chainLogs
            THEN << [kind |-> "erc20Deposit", asset |-> asset, amount |-> 1,
                     blockNumber |-> from] >>
            ELSE <<>>) \o LogsOf(asset, from + 1, to)

\* The for-loop over trackedAssets (lines 444-463): the k-th getLogs call
\* rejects when failAt = k (0: none rejects).  Returns the deposits pushed so
\* far and whether the loop ran to its end.
RECURSIVE ScanAssets(_, _, _, _, _)
ScanAssets(assets, k, failAt, from, to) ==
    IF k > Len(assets) THEN [ok |-> TRUE, deposits |-> <<>>]
    ELSE IF failAt = k THEN [ok |-> FALSE, deposits |-> <<>>]
    ELSE LET rest == ScanAssets(assets, k + 1, failAt, from, to)
         IN  [ok |-> rest.ok, deposits |-> LogsOf(assets[k], from, to) \o rest.deposits]

\* Line 436: the early return when the head is not beyond the cursor.
NoNewBlocks_never(latest, cursor) == FALSE
NoNewBlocks_equalOnly(latest, cursor) == latest = cursor
NoNewBlocks(latest, cursor) == latest <= cursor

\* A rejected await inside the range scan (getLogs line 445, getBalance line
\* 466) leaves the function before lines 482 and 485: nothing is assigned.
OnQueryFailure_eagerCursor(cursor, baseline, latest) ==
    [cursor |-> latest, baseline |-> baseline, signals |-> <<>>, threw |-> TRUE]
OnQueryFailure(cursor, baseline, latest) ==
    [cursor |-> cursor, baseline |-> baseline, signals |-> <<>>, threw |-> TRUE]

\* Lines 465-483: the native balance comparison.
NativeSignals_anyChange(baseline, nat, to) ==
    IF baseline # Undef /\ nat # baseline
        THEN << [kind |-> "nativeDeposit", asset |-> "native",
                 amount |-> nat - baseline, blockNumber |-> to] >>
        ELSE <<>>
NativeSignals(baseline, nat, to) ==
    IF baseline # Undef /\ nat > baseline
        THEN << [kind |-> "nativeDeposit", asset |-> "native",
                 amount |-> nat - baseline, blockNumber |-> to] >>
        ELSE <<>>

\* pollCommitmentChanges (lines 428-487) as a function of the module state
\* (cursor, baseline) and of what the RPC node answers:
\*   e.latest  getBlockNumber (Fail: rejects)
\*   e.failAt  which getLogs call rejects (0: none)
\*   e.nat     getBalance of the safe (Fail: rejects)
pollCommitmentChanges(cursor, baseline, watchNative, assets, e) ==
    IF e.latest = Fail
        THEN [cursor |-> cursor, baseline |-> baseline, signals |-> <<>>, threw |-> TRUE]
    ELSE IF cursor = Undef
        THEN \* lines 430-434: cursor assigned first, then primeBalances
             IF watchNative /\ e.nat = Fail
                THEN [cursor |-> e.latest, baseline |-> baseline, signals |-> <<>>,
                      threw |-> TRUE]
                ELSE [cursor |-> e.latest,
                      baseline |-> IF watchNative THEN e.nat ELSE baseline,
                      signals |-> <<>>, threw |-> FALSE]
    ELSE IF NoNewBlocks(e.latest, cursor)
        THEN [cursor |-> cursor, baseline |-> baseline, signals |-> <<>>, threw |-> FALSE]
    ELSE LET scan == ScanAssets(assets, 1, e.failAt, cursor + 1, e.latest)
         IN  IF ~scan.ok THEN OnQueryFailure(cursor, baseline, e.latest)
             ELSE IF ~watchNative
                THEN [cursor |-> e.latest, baseline |-> baseline,
                      signals |-> scan.deposits, threw |-> FALSE]
             ELSE IF e.nat = Fail THEN OnQueryFailure(cursor, baseline, e.latest)
             ELSE [cursor |-> e.latest, baseline |-> e.nat,
                   signals |-> scan.deposits \o NativeSignals(baseline, e.nat, e.latest),
                   threw |-> FALSE]

PollEnvs(assets) ==
    [latest : {Fail} \cup Blocks, failAt : 0..Len(assets), nat : {Fail} \cup (0..MaxNative)]

\* ------------------------------------------------------ decision service
ToolNames == {"build_og_transactions", "make_deposit", "post_bond_and_propose"}
Recipients == {"agent", "safe", "other"}   \* agentAddress, commitmentSafe, any other

\* Actions of a build_og_transactions call (the kinds of lines 897-951 are
\* represented by erc20_transfer; "bogus" is a kind the compiler does not know).
Actions == { [kind |-> "erc20_transfer", to |-> r] : r \in Recipients }
             \cup { [kind |-> "bogus", to |-> "safe"] }

\* A transaction: who receives the funds and who authored the low-level call.
RawTxs == { [recipient |-> r, origin |-> "raw"] : r \in Recipients }

\* A tool call as extractToolCalls (lines 652-679) returns it; argsOk is
\* whether parseToolArguments (lines 955-966) returns an object.
BaseCall == [name |-> "bogus_tool", argsOk |-> TRUE, actions |-> <<>>, hasTxs |-> FALSE,
             txs |-> <<>>, asset |-> "missing", amount |-> Undef]
ToolCallSet ==
    { [BaseCall EXCEPT !.name = "build_og_transactions", !.actions = a] :
        a \in {<<>>} \cup { <<x>> : x \in Actions } }
    \cup { [BaseCall EXCEPT !.name = "post_bond_and_propose", !.hasTxs = TRUE,
                            !.txs = <<t>>] : t \in RawTxs }
    \cup { [BaseCall EXCEPT !.name = "post_bond_and_propose"],
           [BaseCall EXCEPT !.name = "make_deposit", !.asset = "a1", !.amount = 1],
           [BaseCall EXCEPT !.name = "make_deposit", !.asset = "a1"],
           BaseCall,
           [BaseCall EXCEPT !.name = "post_bond_and_propose", !.argsOk = FALSE] }

\* What the decision service answers to the request of line 606: the HTTP
\* status, the tool-call items, the first text chunk and the response id.
\* An answer without text skips the parse of lines 623-629 and goes on as one
\* with parseable text does, so the answers with text stand for both.
Responses ==
    LET Batches == UNION { [1..n -> ToolCallSet] : n \in 1..MaxCalls }
    IN  { [http |-> FALSE, toolCalls |-> <<>>, text |-> "none", responseId |-> FALSE] }
        \cup [http : {TRUE}, toolCalls : Batches \cup {<<>>},
              text : {"json", "garbage"}, responseId : BOOLEAN]
\* The request asks for parallel_tool_calls: false (line 602): the answers
\* of a service that honours it carry at most one tool call.
NoResp == [http |-> TRUE, toolCalls |-> <<>>, text |-> "none", responseId |-> FALSE]

\* Lines 624-630: JSON.parse of the text output throws.
TextParseFails_never(text) == FALSE
TextParseFails(text) == text = "garbage"

\* callAgent (lines 606-633): throws on a non-2xx status and on unparseable
\* text, else returns the tool calls and the response id.
callAgent(r) ==
    IF ~r.http THEN [threw |-> TRUE, toolCalls |-> <<>>, responseId |-> FALSE]
    ELSE IF TextParseFails(r.text)
        THEN [threw |-> TRUE, toolCalls |-> <<>>, responseId |-> FALSE]
    ELSE [threw |-> FALSE, toolCalls |-> r.toolCalls, responseId |-> r.responseId]

\* --------------------------------------------------- buildOgTransactions
KnownKind(action) == action.kind = "erc20_transfer"

\* Lines 898, 917, 930: a required field of the action is missing.
MissingField(action) == action.to = "missing"

\* A compiler that stops at the first action it cannot compile and returns
\* the calls made so far.
buildOgTransactions_partial(actions) ==
    LET bad == { i \in 1..Len(actions) : ~KnownKind(actions[i]) \/ MissingField(actions[i]) }
        n == IF bad = {} THEN Len(actions)
             ELSE (CHOOSE i \in bad : \A j \in bad : i <= j) - 1
    IN  [ok |-> n > 0,
         txs |-> [i \in 1..n |-> [recipient |-> actions[i].to, origin |-> "compiled"]]]

\* Lines 889-953: throws on an empty list, on the first unknown kind and on
\* the first missing field; the map either returns a call for every action
\* or nothing.
buildOgTransactions(actions) ==
    IF Len(actions) = 0 THEN [ok |-> FALSE, txs |-> <<>>]
    ELSE IF \E i \in 1..Len(actions) : ~KnownKind(actions[i]) \/ MissingField(actions[i])
        THEN [ok |-> FALSE, txs |-> <<>>]
    ELSE [ok |-> TRUE,
          txs |-> [i \in 1..Len(actions) |->
                     [recipient |-> actions[i].to, origin |-> "compiled"]]]

\* ---------------------------------------------------- postBondAndPropose
\* Line 260.
RequiredBond(bondAmount, minimumBond) ==
    IF bondAmount > minimumBond THEN bondAmount ELSE minimumBond

\* Lines 274-280.
Spenders(bondSpender) ==
    (IF bondSpender \in {"og", "both"} THEN <<"og">> ELSE <<>>)
    \o (IF bondSpender \in {"oo", "both"} THEN <<"oo">> ELSE <<>>)

\* Line 269.
CollateralShort(balance, required) == balance < required
\* Line 296.
AllowanceShort_never(allowance, required) == FALSE
AllowanceShort(allowance, required) == allowance < required
\* Line 304.
GasCheckFails_never(gas) == FALSE
GasCheckFails(gas) == gas = 0

NoPbp == [caller |-> "none", txs |-> <<>>, required |-> 0, gas |-> Undef, k |-> 0,
          events |-> <<>>, status |-> "idle", error |-> "none", via |-> "none",
          message |-> "none"]

\* What a caught value carries: a shortMessage (and a message), only a
\* message, or neither (a thrown value that is no Error object).
ErrShapes == {"short", "message", "bare"}

\* Lines 389-394: the message of the 'Propose simulation failed' error.
FailureMessage(errorV1, errorV2) ==
    IF errorV1 = "short" THEN "V1.shortMessage"
    ELSE IF errorV1 = "message" THEN "V1.message"
    ELSE IF errorV2 = "short" THEN "V2.shortMessage"
    ELSE IF errorV2 = "message" THEN "V2.message"
    ELSE "String(errorV1)"

\* A write sent by walletClient; awaited is whether the code waited for its
\* receipt (waitForTransactionReceipt resolved) before going on.
Write(kind, txs, via, awaited) ==
    [kind |-> kind, txs |-> txs, via |-> via, awaited |-> awaited]
Event(op, arg, ok) == [op |-> op, arg |-> arg, ok |-> ok]

PbpStart(caller, txs) ==
    [NoPbp EXCEPT !.caller = caller, !.txs = txs, !.status = "running"]

\* The invocation throws: control goes back to the caller's catch.
PbpThrow(p, err) ==
    /\ pbp' = [p EXCEPT !.status = "threw", !.error = err]
    /\ pc' = "pbp_done"

\* Line 229: the proposer's native balance is only ever compared with 0.
ProposerBalances == {0, 1}

\* Lines 229-280: the reads, requiredBond, the collateral balance check.
PbpPreflight ==
    /\ pc = "pbp_preflight"
    /\ \E gas \in {Fail} \cup ProposerBalances, readsOk \in BOOLEAN, minOk \in BOOLEAN,
          bal \in {Fail} \cup (0..MaxBond) :
         LET required == RequiredBond(og.bondAmount,
                                      IF minOk THEN og.minimumBond ELSE 0)
             p == [pbp EXCEPT !.gas = gas, !.required = required]
         IN  IF gas = Fail \/ ~readsOk THEN PbpThrow(pbp, "rpc")
             ELSE IF required > 0 /\ bal = Fail THEN PbpThrow(p, "rpc")
             ELSE IF required > 0 /\ CollateralShort(bal, required)
                THEN PbpThrow(p, "collateral")
             ELSE IF required > 0 /\ Len(Spenders(cfg.bondSpender)) > 0
                THEN pbp' = [p EXCEPT !.k = 1] /\ pc' = "pbp_approve"
             ELSE pbp' = p /\ pc' = "pbp_native"
    /\ UNCHANGED <<libVars, chainVars, dcaVars, pollVars, loopVars, execVars, writes, run>>

\* Lines 282-301: one iteration of the spender loop: approve, wait for the
\* receipt, re-read the allowance.
PbpApprove ==
    /\ pc = "pbp_approve"
    /\ LET spender == Spenders(cfg.bondSpender)[pbp.k]
       IN \E outcome \in {"writeFails", "receiptFails", "ok"},
             allowance \in {Fail} \cup (0..MaxBond) :
            IF outcome = "writeFails"
              THEN /\ PbpThrow([pbp EXCEPT !.events =
                                  Append(@, Event("approve", spender, FALSE))], "rpc")
                   /\ writes' = writes
            ELSE LET sent == [pbp EXCEPT !.events =
                                Append(@, Event("approve", spender, TRUE))]
                     read == [sent EXCEPT !.events =
                                Append(@, Event("allowance", spender,
                                                allowance >= pbp.required))]
                 IN /\ writes' = Append(writes, Write("approve", <<>>, spender,
                                                      outcome # "receiptFails"))
                    /\ IF outcome = "receiptFails" \/ allowance = Fail
                         THEN PbpThrow(sent, "rpc")
                       ELSE IF AllowanceShort(allowance, pbp.required)
                         THEN PbpThrow(read, "allowance")
                       ELSE IF pbp.k < Len(Spenders(cfg.bondSpender))
                         THEN pbp' = [read EXCEPT !.k = pbp.k + 1] /\ pc' = "pbp_approve"
                       ELSE pbp' = read /\ pc' = "pbp_native"
    /\ UNCHANGED <<libVars, chainVars, dcaVars, pollVars, loopVars, execVars, run>>

\* Lines 304-343: the native balance check, then the reads that are logged.
PbpNative ==
    /\ pc = "pbp_native"
    /\ \E readsOk \in BOOLEAN :
         IF GasCheckFails(pbp.gas) THEN PbpThrow(pbp, "native")
         ELSE IF ~readsOk THEN PbpThrow(pbp, "rpc")
         ELSE pbp' = pbp /\ pc' = "pbp_v2"
    /\ UNCHANGED <<libVars, chainVars, dcaVars, pollVars, loopVars, execVars, writes, run>>

\* Lines 357-371: simulate with the V2 signature, then send the V2 write.
PbpV2 ==
    /\ pc = "pbp_v2"
    /\ \E sim \in BOOLEAN, sent \in BOOLEAN :
         LET simmed == [pbp EXCEPT !.events = Append(@, Event("simulate", "V2", sim))]
             tried == [simmed EXCEPT !.events = Append(@, Event("propose", "V2", sent))]
         IN  IF ~sim THEN pbp' = simmed /\ pc' = "pbp_v1" /\ writes' = writes
             ELSE IF ~sent THEN pbp' = tried /\ pc' = "pbp_v1" /\ writes' = writes
             ELSE /\ pbp' = [tried EXCEPT !.status = "returned", !.via = "V2"]
                  /\ pc' = "pbp_done"
                  /\ writes' = Append(writes, Write("propose", pbp.txs, "V2", FALSE))
    /\ UNCHANGED <<libVars, chainVars, dcaVars, pollVars, loopVars, execVars, run>>

\* Lines 372-398: the catch of the V2 attempt: simulate and send with the V1
\* signature; any failure here throws 'Propose simulation failed'.
PbpV1 ==
    /\ pc = "pbp_v1"
    /\ \E sim \in BOOLEAN, sent \in BOOLEAN, errorV1 \in ErrShapes, errorV2 \in ErrShapes :
         LET simmed == [pbp EXCEPT !.events = Append(@, Event("simulate", "V1", sim))]
             tried == [simmed EXCEPT !.events = Append(@, Event("propose", "V1", sent))]
             msg == FailureMessage(errorV1, errorV2)
         IN  IF ~sim THEN PbpThrow([simmed EXCEPT !.message = msg], "simulation")
                          /\ writes' = writes
             ELSE IF ~sent THEN PbpThrow([tried EXCEPT !.message = msg], "simulation")
                               /\ writes' = writes
             ELSE /\ pbp' = [tried EXCEPT !.status = "returned", !.via = "V1"]
                  /\ pc' = "pbp_done"
                  /\ writes' = Append(writes, Write("propose", pbp.txs, "V1", FALSE))
    /\ UNCHANGED <<libVars, chainVars, dcaVars, pollVars, loopVars, execVars, run>>

\* postBondAndPropose is exported (line 1016): a direct call by a script.
DirectPropose ==
    /\ pc = "idle"
    /\ \E t \in RawTxs : pbp' = PbpStart("direct", <<t>>)
    /\ pc' = "pbp_preflight"
    /\ writes' = <<>>
    /\ UNCHANGED <<libVars, chainVars, dcaVars, pollVars, loopVars, execVars, run>>

PbpReturnDirect ==
    /\ pc = "pbp_done"
    /\ pbp.caller = "direct"
    /\ pc' = "idle"
    /\ UNCHANGED <<libVars, chainVars, dcaVars, pollVars, loopVars, execVars, pbp, writes, run>>

\* ------------------------------------------------- DCA agent (agent.js)
Null == "null"
MAX_CYCLES == 2

\* agent.js lines 14-21.  proposalSubmitMs = 0 stands for null: both are falsy
\* at line 142, and Date.now() is never 0.
InitialDcaState ==
    [depositConfirmed |-> FALSE, proposalBuilt |-> FALSE, proposalPosted |-> FALSE,
     cyclesCompleted |-> 0, proposalSubmitHash |-> Null, proposalSubmitMs |-> 0]

\* getPendingProposal (lines 90-92).
getPendingProposal(st, onchainPending) == onchainPending \/ st.proposalPosted

\* A tool output as the runner hands it to onToolOutput: present is whether
\* parsedOutput is an object; hash is parsedOutput.proposalHash (Null: absent).
HookNames == ToolNames \cup {"bogus_tool", ""}
HookOutputs ==
    [present : BOOLEAN, status : {"confirmed", "ok", "submitted", "error", "skipped"},
     hash : {"h1", Null}]

\* An onToolOutput that also takes a deposit that was only submitted.
onToolOutput_commitsSubmitted(st, name, out, t) ==
    IF name = "" \/ ~out.present \/ out.status = "error" THEN st
    ELSE IF name = "make_deposit" /\ out.status \in {"confirmed", "submitted"}
        THEN [st EXCEPT !.depositConfirmed = TRUE, !.proposalBuilt = FALSE,
                        !.proposalPosted = FALSE]
    ELSE IF name = "build_og_transactions" /\ out.status = "ok"
        THEN [st EXCEPT !.proposalBuilt = TRUE]
    ELSE IF name = "post_bond_and_propose" /\ out.status = "submitted"
        THEN [st EXCEPT !.proposalPosted = TRUE, !.depositConfirmed = FALSE,
                        !.proposalBuilt = FALSE, !.proposalSubmitHash = out.hash,
                        !.proposalSubmitMs = t]
    ELSE st

\* onToolOutput (lines 94-116); t is Date.now().
onToolOutput(st, name, out, t) ==
    IF name = "" \/ ~out.present \/ out.status = "error" THEN st
    ELSE IF name = "make_deposit" /\ out.status = "confirmed"
        THEN [st EXCEPT !.depositConfirmed = TRUE, !.proposalBuilt = FALSE,
                        !.proposalPosted = FALSE]
    ELSE IF name = "build_og_transactions" /\ out.status = "ok"
        THEN [st EXCEPT !.proposalBuilt = TRUE]
    ELSE IF name = "post_bond_and_propose" /\ out.status = "submitted"
        THEN [st EXCEPT !.proposalPosted = TRUE, !.depositConfirmed = FALSE,
                        !.proposalBuilt = FALSE, !.proposalSubmitHash = out.hash,
                        !.proposalSubmitMs = t]
    ELSE st

Min(a, b) == IF a < b THEN a ELSE b

\* An onProposalEvents without the Math.min of lines 125-128.
onProposalEvents_uncapped(st, last, executed, deleted, t) ==
    LET cleared(x) == [x EXCEPT !.proposalPosted = FALSE, !.proposalBuilt = FALSE,
                                !.depositConfirmed = FALSE, !.proposalSubmitHash = Null,
                                !.proposalSubmitMs = 0]
        afterExecuted ==
            IF executed > 0
              THEN [cleared(st) EXCEPT !.cyclesCompleted = st.cyclesCompleted + executed]
              ELSE st
    IN  [state |-> IF deleted > 0 THEN cleared(afterExecuted) ELSE afterExecuted,
         last |-> IF executed > 0 THEN t ELSE last]

\* An onProposalEvents that counts a deleted proposal as a completed cycle.
onProposalEvents_deletedCounts(st, last, executed, deleted, t) ==
    LET cleared(x) == [x EXCEPT !.proposalPosted = FALSE, !.proposalBuilt = FALSE,
                                !.depositConfirmed = FALSE, !.proposalSubmitHash = Null,
                                !.proposalSubmitMs = 0]
    IN  [state |-> IF executed + deleted > 0
                     THEN [cleared(st) EXCEPT !.cyclesCompleted =
                              Min(MAX_CYCLES, st.cyclesCompleted + executed + deleted)]
                     ELSE st,
         last |-> IF executed + deleted > 0 THEN t ELSE last]

\* onProposalEvents (lines 118-139): the state and lastDcaTimestamp after it.
onProposalEvents(st, last, executed, deleted, t) ==
    LET cleared(x) == [x EXCEPT !.proposalPosted = FALSE, !.proposalBuilt = FALSE,
                                !.depositConfirmed = FALSE, !.proposalSubmitHash = Null,
                                !.proposalSubmitMs = 0]
        afterExecuted ==
            IF executed > 0
              THEN [cleared(st) EXCEPT !.cyclesCompleted =
                                          Min(MAX_CYCLES, st.cyclesCompleted + executed)]
              ELSE st
    IN  [state |-> IF deleted > 0 THEN cleared(afterExecuted) ELSE afterExecuted,
         last |-> IF executed > 0 THEN t ELSE last]

\* DCA_POLICY.proposalConfirmTimeoutMs (line 12).
proposalConfirmTimeoutMs == 60000

\* Lines 148-153 and 155-160: what both resets of reconcileProposalSubmission clear.
SubmissionCleared(st) ==
    [st EXCEPT !.proposalPosted = FALSE, !.proposalBuilt = FALSE,
               !.proposalSubmitHash = Null, !.proposalSubmitMs = 0]

\* reconcileProposalSubmission without the proposalPosted test of line 142.
reconcileProposalSubmission_noPostedGuard(st, receipt, t) ==
    IF st.proposalSubmitHash = Null \/ st.proposalSubmitMs = 0 THEN st
    ELSE IF receipt = "reverted" THEN SubmissionCleared(st)
    ELSE IF receipt = "throws" /\ t - st.proposalSubmitMs > proposalConfirmTimeoutMs
        THEN SubmissionCleared(st)
    ELSE st

\* reconcileProposalSubmission (lines 141-164); t is Date.now() at line 155.
reconcileProposalSubmission(st, receipt, t) ==
    IF ~st.proposalPosted \/ st.proposalSubmitHash = Null \/ st.proposalSubmitMs = 0
        THEN st
    ELSE IF receipt = "reverted" THEN SubmissionCleared(st)
    ELSE IF receipt = "throws" /\ t - st.proposalSubmitMs > proposalConfirmTimeoutMs
        THEN SubmissionCleared(st)
    ELSE st

\* The last call of an agent-module function: which one, with what, the
\* state before it and whether it reset the state.
NoHook == [kind |-> "none", name |-> "", present |-> FALSE, status |-> "none",
           receipt |-> "none", elapsed |-> 0, executed |-> 0,
           before |-> InitialDcaState, reset |-> FALSE]

\* ---------------------------------------------------------------- agentLoop
\* Line 541: the one setTimeout of agentLoop, at its tail.
LoopTail_twice(t) == t + 2
LoopTail(t) == t + 1

\* Lines 537-539: the catch of agentLoop swallows the error, control falls
\* through to line 541.
AfterLoopError_escapes == "dead"
AfterLoopError == "tail"

\* Lines 521-526: the catch of decideOnSignals logs and returns normally to
\* agentLoop, which goes on to line 541.
AfterDecideError_escapes == "dead"
AfterDecideError == "tail"

NoPoll == [called |-> FALSE, latest |-> Undef, failAt |-> 0, cursorBefore |-> Undef,
           baselineBefore |-> Undef, failed |-> FALSE]
NoRun == [agent |-> "none", caught |-> FALSE, explain |-> "none"]

\* The timer callback starts an agentLoop invocation (line 529-531).
TimerFire ==
    /\ timers > 0
    /\ timers' = timers - 1
    /\ active' = active + 1
    /\ pc' = "poll"
    /\ UNCHANGED <<libVars, chainVars, dcaVars, pollVars, execVars, pbp, writes, run>>

\* Line 532-536: await pollCommitmentChanges(), then branch on signals.length.
Poll ==
    /\ pc = "poll"
    /\ \E e \in PollEnvs(cfg.trackedAssets) :
         LET r == pollCommitmentChanges(lastCheckedBlock, lastNativeBalance,
                                        cfg.watchNativeBalance, cfg.trackedAssets, e)
         IN  /\ lastCheckedBlock' = r.cursor
             /\ lastNativeBalance' = r.baseline
             /\ signals' = r.signals
             /\ lastPoll' = [called |-> TRUE, latest |-> e.latest, failAt |-> e.failAt,
                             cursorBefore |-> lastCheckedBlock,
                             baselineBefore |-> lastNativeBalance, failed |-> r.threw]
             /\ reported' = reported \cup
                    { <<r.signals[i].asset, r.signals[i].blockNumber>> :
                        i \in { j \in 1..Len(r.signals) : r.signals[j].kind = "erc20Deposit" } }
             /\ pc' = IF r.threw THEN AfterLoopError
                      ELSE IF Len(r.signals) > 0 THEN "decide" ELSE "tail"
    /\ UNCHANGED <<libVars, chainVars, dcaVars, loopVars, execVars, pbp, writes, run>>

\* decideOnSignals, lines 492-498: without an API key the signals are logged.
DecideNoKey ==
    /\ pc = "decide"
    /\ ~cfg.openAiApiKey
    /\ pc' = "tail"
    /\ UNCHANGED <<libVars, chainVars, dcaVars, pollVars, loopVars, execVars, pbp, writes, run>>

\* decideOnSignals, lines 500-520: the request to the decision service.
\* ogContext is loaded by startAgent (line 547), so line 501 is skipped.
CallAgentFrom(answers) ==
    /\ pc = "decide"
    /\ cfg.openAiApiKey
    /\ \E r \in answers :
         LET d == callAgent(r)
         IN  /\ resp' = r
             /\ IF d.threw
                  THEN /\ run' = [run EXCEPT !.agent = "threw", !.caught = TRUE]
                       /\ pc' = AfterDecideError
                       /\ idx' = idx
                  ELSE /\ run' = [run EXCEPT !.agent = "ok"]
                       /\ pc' = IF Len(d.toolCalls) > 0 THEN "exec" ELSE "tail"
                       /\ idx' = IF Len(d.toolCalls) > 0 THEN 1 ELSE idx
    /\ UNCHANGED <<libVars, chainVars, dcaVars, pollVars, loopVars, outputs, builtTransactions, pbp, writes>>

CallAgent == CallAgentFrom(Responses)
CallAgentSingle == CallAgentFrom({ r \in Responses : Len(r.toolCalls) <= 1 })

\* ---------------------------------------------------------- executeToolCalls
Call == resp.toolCalls[idx]
InLoop == pc = "exec" /\ idx <= Len(resp.toolCalls)
Output(name, status) == [name |-> name, status |-> status]

\* A loop that catches the error of a call and goes on with the next call.
ExecThrow_swallowed ==
    /\ run' = run
    /\ pc' = "exec"
    /\ idx' = IF idx > Len(resp.toolCalls) THEN idx ELSE idx + 1
    /\ UNCHANGED <<outputs, builtTransactions>>

\* A throw inside executeToolCalls reaches the catch of decideOnSignals.
ExecThrow ==
    /\ run' = [run EXCEPT !.caught = TRUE]
    /\ pc' = AfterDecideError
    /\ UNCHANGED <<idx, outputs, builtTransactions>>

\* Lines 817-821: unparseable arguments, the call is skipped.
ExecSkipInvalid ==
    /\ InLoop
    /\ ~Call.argsOk
    /\ idx' = idx + 1
    /\ UNCHANGED <<libVars, chainVars, dcaVars, pollVars, loopVars, pc, resp, outputs, builtTransactions,
                   pbp, writes, run>>

\* Lines 823-841.
ExecBuild ==
    /\ InLoop
    /\ Call.argsOk
    /\ Call.name = "build_og_transactions"
    /\ LET b == buildOgTransactions(Call.actions)
       IN  /\ builtTransactions' = IF b.ok THEN b.txs ELSE builtTransactions
           /\ outputs' = Append(outputs, Output(Call.name, IF b.ok THEN "ok" ELSE "error"))
    /\ idx' = idx + 1
    /\ UNCHANGED <<libVars, chainVars, dcaVars, pollVars, loopVars, pc, resp, pbp, writes, run>>

\* makeDeposit (lines 403-426) with config.defaultDepositAsset unset: is the
\* 'Deposit requires asset and amount' error thrown.
DepositInvalid(asset, amount) == asset = "missing" \/ amount = Undef

\* Lines 843-856: BigInt(args.amountWei) throws on a missing amount, makeDeposit
\* throws on a missing asset or a rejected write; the hash is returned as soon
\* as the transaction is sent.
ExecDeposit ==
    /\ InLoop
    /\ Call.argsOk
    /\ Call.name = "make_deposit"
    /\ \E sent \in BOOLEAN :
         IF Call.amount = Undef \/ DepositInvalid(Call.asset, Call.amount) \/ ~sent
           THEN ExecThrow /\ writes' = writes
           ELSE /\ writes' = Append(writes, Write("deposit", <<>>, Call.asset, FALSE))
                /\ outputs' = Append(outputs, Output(Call.name, "submitted"))
                /\ idx' = idx + 1
                /\ UNCHANGED <<pc, builtTransactions, run>>
    /\ UNCHANGED <<libVars, chainVars, dcaVars, pollVars, loopVars, resp, pbp>>

\* Lines 858-865: args.transactions.map throws when transactions is missing,
\* else postBondAndPropose is called with the transactions of the arguments.
ExecPropose ==
    /\ InLoop
    /\ Call.argsOk
    /\ Call.name = "post_bond_and_propose"
    /\ IF ~Call.hasTxs
         THEN ExecThrow /\ pbp' = pbp
         ELSE /\ pbp' = PbpStart("tool", Call.txs)
              /\ pc' = "pbp_preflight"
              /\ UNCHANGED <<idx, outputs, builtTransactions, run>>
    /\ UNCHANGED <<libVars, chainVars, dcaVars, pollVars, loopVars, resp, writes>>

\* Lines 876-880.
ExecUnknown ==
    /\ InLoop
    /\ Call.argsOk
    /\ Call.name \notin ToolNames
    /\ outputs' = Append(outputs, Output(Call.name, "skipped"))
    /\ idx' = idx + 1
    /\ UNCHANGED <<libVars, chainVars, dcaVars, pollVars, loopVars, pc, resp, builtTransactions, pbp,
                   writes, run>>

\* Lines 866-873: postBondAndPropose returned to the tool-call branch, or threw.
PbpReturnTool ==
    /\ pc = "pbp_done"
    /\ pbp.caller = "tool"
    /\ IF pbp.status = "returned"
         THEN /\ outputs' = Append(outputs, Output("post_bond_and_propose", "submitted"))
              /\ idx' = idx + 1
              /\ pc' = "exec"
              /\ UNCHANGED <<builtTransactions, run>>
         ELSE ExecThrow
    /\ UNCHANGED <<libVars, chainVars, dcaVars, pollVars, loopVars, resp, pbp, writes>>

\* A scan that counts only the post_bond_and_propose calls whose arguments
\* parsed.
HasPostProposal_validOnly(calls) ==
    \E i \in 1..Len(calls) : calls[i].name = "post_bond_and_propose" /\ calls[i].argsOk

\* Line 814.
HasPostProposal(calls) ==
    \E i \in 1..Len(calls) : calls[i].name = "post_bond_and_propose"

\* decideOnSignals line 509: the explanation round-trip is made when the
\* response has an id and there is an output.
AfterExec(outs) == IF resp.responseId /\ Len(outs) > 0 THEN "explain" ELSE "tail"

\* Lines 882-886: after the loop, the automatic proposal.
ExecFinish ==
    /\ pc = "exec"
    /\ idx > Len(resp.toolCalls)
    /\ IF Len(builtTransactions) > 0 /\ ~HasPostProposal(resp.toolCalls)
         THEN pbp' = PbpStart("auto", builtTransactions) /\ pc' = "pbp_preflight"
         ELSE pbp' = pbp /\ pc' = AfterExec(outputs)
    /\ UNCHANGED <<libVars, chainVars, dcaVars, pollVars, loopVars, execVars, writes, run>>

PbpReturnAuto ==
    /\ pc = "pbp_done"
    /\ pbp.caller = "auto"
    /\ IF pbp.status = "returned"
         THEN pc' = AfterExec(outputs) /\ UNCHANGED <<idx, outputs, builtTransactions, run>>
         ELSE ExecThrow
    /\ UNCHANGED <<libVars, chainVars, dcaVars, pollVars, loopVars, resp, pbp, writes>>

\* explainToolCalls (lines 968-1007), awaited inside the try of decideOnSignals.
Explain ==
    /\ pc = "explain"
    /\ \E ok \in BOOLEAN :
         IF ok THEN run' = [run EXCEPT !.explain = "ok"] /\ pc' = "tail"
         ELSE run' = [run EXCEPT !.explain = "failed", !.caught = TRUE]
              /\ pc' = AfterDecideError
    /\ UNCHANGED <<libVars, chainVars, dcaVars, pollVars, loopVars, execVars, pbp, writes>>

\* Line 541: setTimeout(agentLoop, pollIntervalMs); the invocation ends, and
\* with it its locals and the history of the cycle.
Reschedule ==
    /\ pc = "tail"
    /\ timers' = LoopTail(timers)
    /\ active' = active - 1
    /\ pc' = "timer"
    /\ signals' = <<>>
    /\ lastPoll' = NoPoll
    /\ resp' = NoResp
    /\ idx' = 0
    /\ outputs' = <<>>
    /\ builtTransactions' = <<>>
    /\ pbp' = NoPbp
    /\ writes' = <<>>
    /\ run' = NoRun
    /\ UNCHANGED <<libVars, chainVars, dcaVars, lastCheckedBlock, lastNativeBalance, reported>>

\* ------------------------------------------------ the agent module's hooks
\* The runner hands a tool output to the agent module (between two cycles).
OnToolOutput ==
    /\ pc = "timer"
    /\ \E name \in HookNames, out \in HookOutputs :
         dcaState' = onToolOutput(dcaState, name, out, now)
    /\ UNCHANGED <<libVars, chainVars, pollVars, loopVars, execVars, pc, pbp, writes, run,
                   lastDcaTimestamp, now, hook>>

\* The runner reports executed / deleted proposal events to the agent module.
OnProposalEvents ==
    /\ pc = "timer"
    /\ \E executed \in 0..MaxEvents, deleted \in 0..MaxEvents :
         LET r == onProposalEvents(dcaState, lastDcaTimestamp, executed, deleted, now)
         IN  dcaState' = r.state /\ lastDcaTimestamp' = r.last
    /\ UNCHANGED <<libVars, chainVars, pollVars, loopVars, execVars, pc, pbp, writes, run, now, hook>>

\* ------------------------------------- the agent module on its own (SpecDca)
\* Its exported functions called in any order with any arguments, the clock
\* advancing in between; every call is recorded in hook.
engineVars == <<chainVars, pollVars, loopVars, execVars, pc, pbp, writes, run>>

DcaToolOutput ==
    /\ \E name \in HookNames, out \in HookOutputs :
         /\ dcaState' = onToolOutput(dcaState, name, out, now)
         /\ hook' = [NoHook EXCEPT !.kind = "tool", !.name = name, !.present = out.present,
                                   !.status = out.status, !.before = dcaState]
    /\ UNCHANGED <<libVars, engineVars, lastDcaTimestamp, now>>

DcaProposalEvents ==
    /\ \E executed \in 0..MaxEvents, deleted \in 0..MaxEvents :
         LET r == onProposalEvents(dcaState, lastDcaTimestamp, executed, deleted, now)
         IN  /\ dcaState' = r.state
             /\ lastDcaTimestamp' = r.last
             /\ hook' = [NoHook EXCEPT !.kind = "events", !.before = dcaState,
                                       !.executed = executed,
                                       !.reset = (executed > 0 \/ deleted > 0)]
    /\ UNCHANGED <<libVars, engineVars, now>>

DcaReconcile ==
    \* publicClient.getTransactionReceipt answers a receipt with status success
    \* or reverted, or it throws (no receipt for that hash).
    /\ \E receipt \in {"success", "reverted", "throws"} :
         LET r == reconcileProposalSubmission(dcaState, receipt, now)
         IN  /\ dcaState' = r
             /\ hook' = [NoHook EXCEPT !.kind = "reconcile", !.receipt = receipt,
                                       !.elapsed = now - dcaState.proposalSubmitMs,
                                       !.before = dcaState, !.reset = (r # dcaState)]
    /\ UNCHANGED <<libVars, engineVars, lastDcaTimestamp>>
    /\ now' = now

TickMs == proposalConfirmTimeoutMs \div 2

Tick ==
    /\ now < 1 + MaxTicks * TickMs
    /\ now' = now + TickMs
    /\ UNCHANGED <<libVars, engineVars, dcaState, lastDcaTimestamp, hook>>

NextDca == DcaToolOutput \/ DcaProposalEvents \/ DcaReconcile \/ Tick

\* ------------------- price-race triggers (default/test-default-agent.mjs)
\* A trigger id is the sequence of the collation ranks of its characters:
\* <<1>> is "a", <<2>> is "b", <<>> is a missing or empty id, and rank 9
\* stands for the prefix "inferred-trigger-" of a generated id (line 93).
DefaultId(index) == <<9, index + 1>>

\* a.localeCompare(b) (line 125) as a sign.
RECURSIVE localeCompare(_, _)
localeCompare(a, b) ==
    IF a = <<>> /\ b = <<>> THEN 0
    ELSE IF a = <<>> THEN -1
    ELSE IF b = <<>> THEN 1
    ELSE IF Head(a) < Head(b) THEN -1
    ELSE IF Head(a) > Head(b) THEN 1
    ELSE localeCompare(Tail(a), Tail(b))

\* A comparator that orders by id alone.
compareTriggers_idOnly(a, b) == localeCompare(a.id, b.id)

\* The comparator of lines 122-126.
compareTriggers(a, b) ==
    IF a.priority - b.priority # 0 THEN a.priority - b.priority
    ELSE localeCompare(a.id, b.id)

\* Array.prototype.sort with that comparator (stable).
RECURSIVE insertSorted(_, _)
insertSorted(sorted, t) ==
    IF sorted = <<>> THEN <<t>>
    ELSE IF compareTriggers(t, Head(sorted)) < 0 THEN <<t>> \o sorted
    ELSE <<Head(sorted)>> \o insertSorted(Tail(sorted), t)

RECURSIVE sortTriggers(_)
sortTriggers(list) ==
    IF list = <<>> THEN <<>>
    ELSE insertSorted(sortTriggers(SubSeq(list, 1, Len(list) - 1)), list[Len(list)])

\* Lines 88-96: the id and priority of the normalized trigger (index from 0).
normalizeTrigger(trigger, index) ==
    [id |-> IF trigger.id # <<>> THEN trigger.id ELSE DefaultId(index),
     priority |-> IF trigger.hasPriority THEN trigger.priority ELSE index]

\* sanitizeInferredTriggers (lines 67-129): ok is whether it returned, and
\* triggers is what it returned.
sanitizeInferredTriggers(isArray, rawTriggers) ==
    LET normalized == [i \in 1..Len(rawTriggers) |-> normalizeTrigger(rawTriggers[i], i - 1)]
        throws ==
            \/ \E i \in 1..Len(rawTriggers) :
                 ~rawTriggers[i].wellFormed \/ normalized[i].priority < 0
            \/ \E i, j \in 1..Len(rawTriggers) : i < j /\ normalized[i].id = normalized[j].id
    IN  IF ~isArray THEN [ok |-> TRUE, triggers |-> <<>>]
        ELSE IF throws THEN [ok |-> FALSE, triggers |-> <<>>]
        ELSE [ok |-> TRUE, triggers |-> sortTriggers(normalized)]

\* The trigger that fires among those that are true in a cycle: the first
\* true one of the sanitized list (0: none).
selectTrigger(triggers, trueAt) ==
    IF trueAt = {} THEN 0
    ELSE CHOOSE i \in trueAt : \A j \in trueAt : i <= j

NoRace == [pc |-> "idle", isArray |-> TRUE, raw |-> <<>>, triggers |-> <<>>,
           trueAt |-> {}, selected |-> 0]

RaceSanitize ==
    /\ race.pc = "raw"
    /\ LET r == sanitizeInferredTriggers(race.isArray, race.raw)
       IN  race' = [race EXCEPT !.pc = IF r.ok THEN "sanitized" ELSE "failed",
                                !.triggers = r.triggers]
    /\ UNCHANGED <<engineVars, dcaVars, clob, timelock, copyTrade, depositTool, triggerCache>>

\* One cycle: the prices make some of the triggers true.
RaceSelect ==
    /\ race.pc = "sanitized"
    /\ \E trueAt \in SUBSET (1..Len(race.triggers)) :
         race' = [race EXCEPT !.pc = "selected", !.trueAt = trueAt,
                              !.selected = selectTrigger(race.triggers, trueAt)]
    /\ UNCHANGED <<engineVars, dcaVars, clob, timelock, copyTrade, depositTool, triggerCache>>

NextRace == RaceSanitize \/ RaceSelect

\* ------------------------------- trading-venue calls (part_001:1014-1146)
\* What fetch resolves to is the status and the kind of body text.  A script
\* is the transport's answers to successive attempts; the last one repeats.

\* Lines 1083-1091, 1114-1116 and 1131-1133: the argument checks that throw.
ClobArgsRejected(a) ==
    IF a.fn = "placeClobOrder" THEN ~a.signedOrder \/ ~a.owner \/ ~a.orderType
    ELSE \/ a.mode = "market" /\ ~a.hasMarket
         \/ a.mode = "ids" /\ ~a.hasOrderIds

\* The method and path each call hands to clobRequest.
ClobRoute(a) ==
    IF a.fn = "placeClobOrder" THEN [method |-> "POST", path |-> "/order"]
    ELSE IF a.mode = "all" THEN [method |-> "DELETE", path |-> "/cancel-all"]
    ELSE IF a.mode = "market" THEN [method |-> "DELETE", path |-> "/cancel-market-orders"]
    ELSE [method |-> "DELETE", path |-> "/orders"]

\* Lines 1057-1062: the parsed body.
ParseBody(text) ==
    IF text = "empty" THEN "null" ELSE IF text = "json" THEN "json" ELSE "raw"

\* A clobRequest that sends a request that failed with a 5xx status again,
\* up to polymarketClobMaxRetries times.
AfterNotOk_retry5xx(response, attempts, maxRetries) ==
    IF response.status >= 500 /\ attempts <= maxRetries THEN "fetch" ELSE "thrown"

\* A clobRequest that sends any failed request again, once more than
\* polymarketClobMaxRetries allows.
AfterNotOk_retryOnceMore(response, attempts, maxRetries) ==
    IF attempts <= maxRetries + 1 THEN "fetch" ELSE "thrown"

\* Lines 1064-1068: a response that is not ok makes clobRequest throw.
AfterNotOk(response, attempts, maxRetries) == "thrown"

NoClob == [pc |-> "idle", args |-> [fn |-> "none"], credentials |-> TRUE,
           maxRetries |-> 0, script |-> <<>>, attempts |-> 0,
           result |-> "none", error |-> [kind |-> "none"]]

\* placeClobOrder / cancelClobOrders up to the call of clobRequest, and
\* clobRequest up to its fetch (lines 1047-1051).
ClobCall ==
    /\ clob.pc = "call"
    /\ clob' = IF ClobArgsRejected(clob.args)
                 THEN [clob EXCEPT !.pc = "thrown", !.error = [kind |-> "arguments"]]
               ELSE IF ~clob.credentials
                 THEN [clob EXCEPT !.pc = "thrown", !.error = [kind |-> "credentials"]]
               ELSE [clob EXCEPT !.pc = "fetch"]
    /\ UNCHANGED <<engineVars, dcaVars, race, timelock, copyTrade, depositTool, triggerCache>>

\* One fetch of clobRequest and what follows it (lines 1052-1071).
ClobFetch ==
    /\ clob.pc = "fetch"
    /\ LET n == clob.attempts + 1
           response == clob.script[IF n <= Len(clob.script) THEN n ELSE Len(clob.script)]
           ok == response.status >= 200 /\ response.status < 300
           route == ClobRoute(clob.args)
       IN  clob' =
             IF ok THEN [clob EXCEPT !.pc = "returned", !.attempts = n,
                                     !.result = ParseBody(response.text)]
             ELSE LET next == AfterNotOk(response, n, clob.maxRetries)
                  IN  [clob EXCEPT !.pc = next, !.attempts = n,
                                   !.error = IF next = "thrown"
                                               THEN [kind |-> "request", method |-> route.method,
                                                     path |-> route.path,
                                                     status |-> response.status]
                                               ELSE @]
    /\ UNCHANGED <<engineVars, dcaVars, race, timelock, copyTrade, depositTool, triggerCache>>

NextClob == ClobCall \/ ClobFetch

\* ------------------------------------------- timelock triggers (part_002)
\* Rules text is a sequence of tokens: runs of word characters, and "-" for
\* a hyphen; the tokens are separated by blanks except around a hyphen.
\* The texts below contain no calendar date.
UnitWords == {"minute", "minutes", "hour", "hours", "day", "days"}
AmountTexts ==
    { <<"5">>, <<"0">>, <<"15">>, <<"five">>, <<"twelve">>, <<"thirteen">>,
      <<"twenty", "-", "one">> }

\* NUMBER_WORDS (lines 4-17).
NUMBER_WORDS ==
    [w \in {"one", "two", "three", "four", "five", "six", "seven", "eight", "nine",
            "ten", "eleven", "twelve"} |->
        CASE w = "one" -> 1 [] w = "two" -> 2 [] w = "three" -> 3 [] w = "four" -> 4
          [] w = "five" -> 5 [] w = "six" -> 6 [] w = "seven" -> 7 [] w = "eight" -> 8
          [] w = "nine" -> 9 [] w = "ten" -> 10 [] w = "eleven" -> 11 [] w = "twelve" -> 12]

\* Number(trimmed) for the tokens that pass /^\d+$/ (lines 22-24).
DigitTokens == [t \in {"0", "5", "15"} |-> CASE t = "0" -> 0 [] t = "5" -> 5 [] t = "15" -> 15]

\* parseNumber (lines 19-26); Undef is null.
parseNumber(value) ==
    IF value \in DOMAIN DigitTokens THEN DigitTokens[value]
    ELSE IF value \in DOMAIN NUMBER_WORDS THEN NUMBER_WORDS[value]
    ELSE Undef

\* unitToMs (lines 28-42); Undef is null.
unitToMs(unit) ==
    CASE unit \in {"minute", "minutes"} -> 60000
      [] unit \in {"hour", "hours"} -> 3600000
      [] unit \in {"day", "days"} -> 86400000
      [] OTHER -> Undef

\* extractRelativeTimelocks (lines 96-113) from token i on: the regex of
\* line 98 matches one word token, a unit, "after" and "deposit", leftmost
\* first, and the search goes on behind each match.
RECURSIVE scanRelative(_, _)
scanRelative(text, i) ==
    IF i + 3 > Len(text) THEN <<>>
    ELSE IF /\ text[i] # "-"
            /\ text[i + 1] \in UnitWords
            /\ text[i + 2] = "after"
            /\ text[i + 3] = "deposit"
        THEN LET amount == parseNumber(text[i])
                 unitMs == unitToMs(text[i + 1])
             IN  (IF amount = Undef \/ amount = 0 \/ unitMs = Undef THEN <<>>
                  ELSE << [kind |-> "relative", offsetMs |-> amount * unitMs,
                           source |-> SubSeq(text, i, i + 3)] >>)
                 \o scanRelative(text, i + 4)
    ELSE scanRelative(text, i + 1)

extractRelativeTimelocks(rulesText) == scanRelative(rulesText, 1)

\* Lines 129-142: the triggers of the deposits from index d on.
RECURSIVE relativeTriggers(_, _, _)
relativeTriggers(deposits, relative, d) ==
    IF d > Len(deposits) THEN <<>>
    ELSE (IF deposits[d].timestampMs = 0 THEN <<>>
          ELSE [r \in 1..Len(relative) |->
                  [id |-> <<"relative", deposits[d].id, relative[r].offsetMs>>,
                   kind |-> "relative",
                   timestampMs |-> deposits[d].timestampMs + relative[r].offsetMs,
                   source |-> relative[r].source,
                   deposit |-> deposits[d]]])
         \o relativeTriggers(deposits, relative, d + 1)

\* extractTimelockTriggers (lines 115-146) for a text without a calendar
\* date, for which extractAbsoluteTimelocks returns no lock.
extractTimelockTriggers(rulesText, isArray, deposits) ==
    LET relative == extractRelativeTimelocks(rulesText)
    IN  IF Len(relative) > 0 /\ isArray THEN relativeTriggers(deposits, relative, 1)
        ELSE <<>>

NoTimelock == [pc |-> "idle", rulesText |-> <<>>, isArray |-> TRUE, deposits |-> <<>>,
               triggers |-> <<>>, nowMs |-> 0, due |-> {}]

TimelockExtract ==
    /\ timelock.pc = "rules"
    /\ timelock' = [timelock EXCEPT
                      !.pc = "extracted",
                      !.triggers = extractTimelockTriggers(timelock.rulesText,
                                                           timelock.isArray,
                                                           timelock.deposits)]
    /\ UNCHANGED <<engineVars, dcaVars, race, clob, copyTrade, depositTool, triggerCache>>

\* simulate (test-timelock.mjs lines 40-41): the triggers that are due at nowMs.
TimelockDue ==
    /\ timelock.pc = "extracted"
    /\ \E nowMs \in {0} \cup { timelock.triggers[i].timestampMs + d :
                                 i \in 1..Len(timelock.triggers), d \in {-1, 0, 1} } :
         timelock' = [timelock EXCEPT
                        !.pc = "filtered", !.nowMs = nowMs,
                        !.due = { i \in 1..Len(timelock.triggers) :
                                    timelock.triggers[i].timestampMs <= nowMs }]
    /\ UNCHANGED <<engineVars, dcaVars, race, clob, copyTrade, depositTool, triggerCache>>

NextTimelock == TimelockExtract \/ TimelockDue

\* ---------------- copy-trading agent (its module is known by its test only)
ProposalHashes == {"hashA", "hashB"}

\* The state after resetCopyTradingState.
InitialCopyState ==
    [activeSourceTradeId |-> Null, activeTradeSide |-> Null,
     reimbursementProposed |-> FALSE, reimbursementProposalHash |-> Null,
     seenSourceTradeId |-> Null]

\* enrichSignals: the latest trade of the source user becomes the active
\* trade when none is active and it was not copied before.
enrichSignals(st, trade) ==
    IF st.activeSourceTradeId = Null /\ trade.id # st.seenSourceTradeId
        THEN [st EXCEPT !.activeSourceTradeId = trade.id, !.activeTradeSide = trade.side]
    ELSE st

\* onToolOutput of the copy-trading agent: a submitted proposal is recorded
\* with its hash.
copyOnToolOutput(st, name, out) ==
    IF name = "post_bond_and_propose" /\ out.present /\ out.status = "submitted"
        THEN [st EXCEPT !.reimbursementProposed = TRUE,
                        !.reimbursementProposalHash = out.hash]
    ELSE st

\* An onProposalEvents that takes any executed proposal for its own.
copyOnProposalEvents_anyExecuted(st, executedProposals) ==
    IF executedProposals # {}
        THEN [InitialCopyState EXCEPT !.seenSourceTradeId = st.activeSourceTradeId]
    ELSE st

\* onProposalEvents of the copy-trading agent: the active trade is closed
\* when the recorded proposal hash is among the executed ones.
copyOnProposalEvents(st, executedProposals) ==
    IF st.reimbursementProposalHash # Null
       /\ st.reimbursementProposalHash \in executedProposals
        THEN [InitialCopyState EXCEPT !.seenSourceTradeId = st.activeSourceTradeId]
    ELSE st

NoCopyCall == [kind |-> "none", executed |-> {}, before |-> InitialCopyState]
NoCopyTrade == [state |-> InitialCopyState, last |-> NoCopyCall]

CopyEnrich ==
    /\ \E trade \in [id : {"trade-1", "trade-2"}, side : {"BUY", "SELL"}] :
         copyTrade' = [state |-> enrichSignals(copyTrade.state, trade),
                       last |-> [NoCopyCall EXCEPT !.kind = "enrich",
                                                   !.before = copyTrade.state]]
    /\ UNCHANGED <<engineVars, dcaVars, race, clob, timelock, depositTool, triggerCache>>

CopyToolOutput ==
    /\ \E name \in {"post_bond_and_propose", "build_og_transactions"},
          out \in [present : BOOLEAN, status : {"submitted", "error"},
                   hash : ProposalHashes] :
         copyTrade' = [state |-> copyOnToolOutput(copyTrade.state, name, out),
                       last |-> [NoCopyCall EXCEPT !.kind = "tool",
                                                   !.before = copyTrade.state]]
    /\ UNCHANGED <<engineVars, dcaVars, race, clob, timelock, depositTool, triggerCache>>

CopyProposalEvents ==
    /\ \E executedProposals \in SUBSET ProposalHashes :
         copyTrade' = [state |-> copyOnProposalEvents(copyTrade.state, executedProposals),
                       last |-> [NoCopyCall EXCEPT !.kind = "events",
                                                   !.executed = executedProposals,
                                                   !.before = copyTrade.state]]
    /\ UNCHANGED <<engineVars, dcaVars, race, clob, timelock, depositTool, triggerCache>>

NextCopy == CopyEnrich \/ CopyToolOutput \/ CopyProposalEvents

\* ------------------------------------------------------- the deposit tools
\* makeDeposit (part_001:403-426).  asset is the address argument ("missing":
\* undefined or empty, "zero": the zero address), amountWei the amount
\* (Undef: undefined); the defaults are config.defaultDepositAsset and
\* config.defaultDepositAmountWei.  sent: the wallet accepts the transaction.
\* The result is whether the call threw and the writes it handed to the wallet.
DepositWrite(fn, token, from, to, amount) ==
    [fn |-> fn, token |-> token, from |-> from, to |-> to, amount |-> amount]

makeDeposit_lateCheck(asset, amountWei, defaultAsset, defaultAmountWei, sent) ==
    [threw |-> asset \in {"missing", "invalid"} \/ amountWei = Undef \/ ~sent,
     writes |-> << DepositWrite("transfer", asset, "signer", "safe", amountWei) >>]

makeDeposit(asset, amountWei, defaultAsset, defaultAmountWei, sent) ==
    IF asset = "invalid" THEN [threw |-> TRUE, writes |-> <<>>]    \* getAddress throws
    ELSE LET depositAsset == IF asset # "missing" THEN asset ELSE defaultAsset
             depositAmount == IF amountWei # Undef THEN amountWei ELSE defaultAmountWei
         IN  IF depositAsset = "missing" \/ depositAmount = Undef
                 THEN [threw |-> TRUE, writes |-> <<>>]
             ELSE IF ~sent THEN [threw |-> TRUE, writes |-> <<>>]
             ELSE IF depositAsset = "zero"
                 THEN [threw |-> FALSE,
                       writes |-> << DepositWrite("sendTransaction", "zero", "signer", "safe",
                                                  depositAmount) >>]
             ELSE [threw |-> FALSE,
                   writes |-> << DepositWrite("transfer", depositAsset, "signer", "safe",
                                              depositAmount) >>]

\* makeErc1155Deposit of lib/tx.js, known by its test (part_003:111-158): an
\* amount that is not > 0 is rejected, else safeTransferFrom(account.address,
\* commitmentSafe, tokenId, amount, data) is written to the token contract.
makeErc1155Deposit(token, tokenId, amount, sent) ==
    IF amount <= 0 THEN [threw |-> TRUE, writes |-> <<>>]
    ELSE IF ~sent THEN [threw |-> TRUE, writes |-> <<>>]
    ELSE [threw |-> FALSE,
          writes |-> << DepositWrite("safeTransferFrom", token, "signer", "safe", amount) >>]

NoDepositTool ==
    [fn |-> "none", asset |-> "missing", amount |-> Undef, defaultAsset |-> "missing",
     defaultAmount |-> Undef, tokenId |-> 0, sent |-> FALSE, threw |-> FALSE, writes |-> <<>>]

MakeDeposit ==
    /\ \E asset \in {"missing", "invalid", "zero", "a1"}, amountWei \in {Undef} \cup (0..MaxAmount),
          defaultAsset \in {"missing", "zero", "a2"}, defaultAmountWei \in {Undef, 1},
          sent \in BOOLEAN :
         LET r == makeDeposit(asset, amountWei, defaultAsset, defaultAmountWei, sent)
         IN  depositTool' =
                 [NoDepositTool EXCEPT !.fn = "makeDeposit", !.asset = asset,
                                       !.amount = amountWei, !.defaultAsset = defaultAsset,
                                       !.defaultAmount = defaultAmountWei, !.sent = sent,
                                       !.threw = r.threw, !.writes = r.writes]
    /\ UNCHANGED <<engineVars, dcaVars, race, clob, timelock, copyTrade, triggerCache>>

MakeErc1155Deposit ==
    /\ \E token \in {"ctf"}, tokenId \in {7, 8}, amount \in {Undef} \cup (0..MaxAmount),
          sent \in BOOLEAN :
         LET r == makeErc1155Deposit(token, tokenId, amount, sent)
         IN  depositTool' =
                 [NoDepositTool EXCEPT !.fn = "makeErc1155Deposit", !.asset = token,
                                       !.amount = amount, !.tokenId = tokenId, !.sent = sent,
                                       !.threw = r.threw, !.writes = r.writes]
    /\ UNCHANGED <<engineVars, dcaVars, race, clob, timelock, copyTrade, triggerCache>>

NextDeposit == MakeDeposit \/ MakeErc1155Deposit

\* ------------- the trigger-inference cache (default/test-default-agent.mjs)
\* inferredTriggersCache (line 17), a Map from commitment text to trigger
\* list: cached is the set of its keys and value its entries.  inflight counts
\* the requests of line 152 not yet answered, per text, and last records the
\* call that started or finished in the latest step with the cache before it.
CommitmentTexts == {"A", "B"}
NoTriggerCall ==
    [kind |-> "none", text |-> "", key |-> FALSE, sent |-> FALSE, threw |-> FALSE,
     returned |-> <<>>, answer |-> [ok |-> TRUE, text |-> "empty", isArray |-> TRUE, raw |-> <<>>],
     cachedBefore |-> {}, valueBefore |-> [t \in CommitmentTexts |-> <<>>]]
NoTriggerCache ==
    [cached |-> {}, value |-> [t \in CommitmentTexts |-> <<>>],
     inflight |-> [t \in CommitmentTexts |-> 0], last |-> NoTriggerCall]

\* An inference that answers an empty list where sanitizeInferredTriggers
\* rejects the triggers.
inferTriggers_lenient(answer) ==
    IF ~answer.ok \/ answer.text = "garbage" THEN [threw |-> TRUE, triggers |-> <<>>]
    ELSE IF answer.text = "empty" THEN [threw |-> FALSE, triggers |-> <<>>]
    ELSE [threw |-> FALSE,
          triggers |-> sanitizeInferredTriggers(answer.isArray, answer.raw).triggers]

\* getPriceTriggers from the answer on (lines 161-185): what the call returns
\* and caches, or that it throws.  The answer is the HTTP status, whether
\* its first text is empty, unparseable or JSON, and the triggers of that JSON
\* (a missing triggers key is the empty array, line 183).
inferTriggers(answer) ==
    IF ~answer.ok THEN [threw |-> TRUE, triggers |-> <<>>]
    ELSE IF answer.text = "empty" THEN [threw |-> FALSE, triggers |-> <<>>]
    ELSE IF answer.text = "garbage" THEN [threw |-> TRUE, triggers |-> <<>>]
    ELSE LET r == sanitizeInferredTriggers(answer.isArray, answer.raw)
         IN  [threw |-> ~r.ok, triggers |-> r.triggers]

\* getPriceTriggers up to its await of fetch (lines 131-159): [] without the
\* text or the key, the cached entry when there is one, else the request is
\* sent.  "" is a missing commitment text.
GetPriceTriggers ==
    /\ \E text \in {""} \cup CommitmentTexts, key \in BOOLEAN :
         LET call == [NoTriggerCall EXCEPT !.kind = "call", !.text = text, !.key = key,
                                           !.cachedBefore = triggerCache.cached,
                                           !.valueBefore = triggerCache.value]
         IN  IF text = "" \/ ~key
               THEN triggerCache' = [triggerCache EXCEPT !.last = call]
             ELSE IF text \in triggerCache.cached
               THEN triggerCache' =
                      [triggerCache EXCEPT
                          !.last = [call EXCEPT !.returned = triggerCache.value[text]]]
             ELSE /\ triggerCache.inflight["A"] + triggerCache.inflight["B"] < MaxInflight
                  /\ triggerCache' =
                      [triggerCache EXCEPT !.inflight[text] = @ + 1,
                                           !.last = [call EXCEPT !.sent = TRUE]]
    /\ UNCHANGED <<engineVars, dcaVars, race, clob, timelock, copyTrade, depositTool>>

\* Lines 161-186: the answer to a request in flight arrives.
GetPriceTriggersAnswer ==
    /\ \E text \in CommitmentTexts,
          answer \in [ok : BOOLEAN, text : {"empty", "garbage", "json"}, isArray : BOOLEAN,
                      raw : UNION { [1..n -> [id : {<<1>>, <<2>>}, hasPriority : {FALSE},
                                              priority : {0}, wellFormed : {TRUE}]] :
                                      n \in 0..MaxTriggers }] :
         /\ triggerCache.inflight[text] > 0
         /\ answer.text # "json" => answer.isArray /\ answer.raw = <<>>
         /\ ~answer.ok => answer.text = "empty"
         /\ LET r == inferTriggers(answer)
                done == [NoTriggerCall EXCEPT !.kind = "answer", !.text = text, !.key = TRUE,
                                              !.sent = TRUE, !.answer = answer,
                                              !.threw = r.threw, !.returned = r.triggers,
                                              !.cachedBefore = triggerCache.cached,
                                              !.valueBefore = triggerCache.value]
            IN  triggerCache' =
                  IF r.threw
                    THEN [triggerCache EXCEPT !.inflight[text] = @ - 1, !.last = done]
                    ELSE [triggerCache EXCEPT !.inflight[text] = @ - 1, !.last = done,
                                              !.cached = @ \cup {text},
                                              !.value[text] = r.triggers]
    /\ UNCHANGED <<engineVars, dcaVars, race, clob, timelock, copyTrade, depositTool>>

NextCache == GetPriceTriggers \/ GetPriceTriggersAnswer

InitLib ==
    /\ race = NoRace /\ clob = NoClob /\ timelock = NoTimelock /\ copyTrade = NoCopyTrade
    /\ depositTool = NoDepositTool /\ triggerCache = NoTriggerCache

\* ------------------------------------------------------------------- Init
\* The state when startAgent (lines 544-560) calls agentLoop the first time:
\* lastCheckedBlock is START_BLOCK or the head read at line 551, the native
\* baseline is primed when native watching is on.  The first agentLoop call
\* is modelled as an already expired timer.
Configs(keys, watch, spenders) ==
    [openAiApiKey : keys, watchNativeBalance : watch,
     trackedAssets : {<<"a1">>, <<"a2", "a1">>}, startBlock : 0..1,
     bondSpender : spenders]

InitCommon ==
    /\ lastCheckedBlock = cfg.startBlock
    /\ lastNativeBalance \in (IF cfg.watchNativeBalance THEN 0..MaxNative ELSE {Undef})
    /\ signals = <<>>
    /\ lastPoll = NoPoll
    /\ reported = {}
    /\ resp = NoResp
    /\ idx = 0
    /\ outputs = <<>>
    /\ builtTransactions = <<>>
    /\ pbp = NoPbp
    /\ writes = <<>>
    /\ run = NoRun
    /\ dcaState = InitialDcaState
    /\ lastDcaTimestamp = 1
    /\ now = 1
    /\ hook = NoHook /\ InitLib

InitLoop ==
    /\ pc = "timer"
    /\ timers = 1
    /\ active = 0

\* Detection: no API key, so decideOnSignals only logs; any chain content.
InitDetect ==
    /\ cfg \in Configs({FALSE}, BOOLEAN, {"og"})
    /\ chainLogs \in SUBSET (Assets \X (1..MaxBlock))
    /\ og = [bondAmount |-> 0, minimumBond |-> 0]
    /\ InitCommon
    /\ InitLoop

NextDetect == TimerFire \/ Poll \/ DecideNoKey \/ Reschedule

SpecDetect == InitDetect /\ [][NextDetect]_vars

\* startAgent (lines 544-560).  Lines 550-552: without START_BLOCK the cursor
\* is the head read at start-up.
StartCursor_genesis(cursor, head) == IF cursor = Undef THEN 0 ELSE cursor
StartCursor(cursor, head) == IF cursor = Undef THEN head ELSE cursor

\* loaded: the three loads of lines 546-548 succeed; head, nat: what
\* getBlockNumber and getBalance answer.  A rejection ends the process
\* (lines 1010-1013); else agentLoop is called (line 559), modelled as an
\* already expired timer.  lastPoll keeps the head that was read.
StartAgent ==
    /\ pc = "start"
    /\ \E loaded \in BOOLEAN, head \in {Fail} \cup Blocks, nat \in {Fail} \cup (0..MaxNative) :
         IF ~loaded \/ (lastCheckedBlock = Undef /\ head = Fail)
             THEN pc' = "dead" /\ UNCHANGED <<lastCheckedBlock, lastNativeBalance, lastPoll, timers>>
         ELSE /\ lastCheckedBlock' = StartCursor(lastCheckedBlock, head)
              /\ lastPoll' = [NoPoll EXCEPT !.latest = IF lastCheckedBlock = Undef
                                                        THEN head ELSE Undef]
              /\ IF cfg.watchNativeBalance /\ nat = Fail
                    THEN pc' = "dead" /\ UNCHANGED <<lastNativeBalance, timers>>
                    ELSE /\ lastNativeBalance' = IF cfg.watchNativeBalance THEN nat
                                                 ELSE lastNativeBalance
                         /\ pc' = "timer"
                         /\ timers' = 1
    /\ UNCHANGED <<libVars, chainVars, dcaVars, execVars, signals, reported, active, pbp,
                   writes, run>>

\* Start-up with and without START_BLOCK, then detection as in SpecDetect;
\* the deposits on chain are deposits of the collateral asset.
InitStart ==
    /\ cfg \in { [c EXCEPT !.startBlock = b] :
                   c \in Configs({FALSE}, BOOLEAN, {"og"}), b \in {Undef, 1} }
    /\ chainLogs \in SUBSET ({"a1"} \X (1..MaxBlock))
    /\ og = [bondAmount |-> 0, minimumBond |-> 0]
    /\ lastCheckedBlock = cfg.startBlock
    /\ lastNativeBalance = Undef
    /\ signals = <<>> /\ lastPoll = NoPoll /\ reported = {} /\ resp = NoResp
    /\ idx = 0 /\ outputs = <<>> /\ builtTransactions = <<>>
    /\ pbp = NoPbp /\ writes = <<>> /\ run = NoRun
    /\ dcaState = InitialDcaState /\ lastDcaTimestamp = 1 /\ now = 1 /\ hook = NoHook
    /\ InitLib
    /\ pc = "start" /\ timers = 0 /\ active = 0

NextStart == StartAgent \/ NextDetect

SpecStart == InitStart /\ [][NextStart]_vars

\* The whole loop with an API key; every block carries a deposit of the
\* collateral asset and the OG module asks for no bond.
Init ==
    /\ cfg \in { c \in Configs({TRUE}, {FALSE}, {"og"}) :
                   c.trackedAssets = <<"a1">> /\ c.startBlock = 0 }
    /\ chainLogs = {"a1"} \X (1..MaxBlock)
    /\ og = [bondAmount |-> 0, minimumBond |-> 0]
    /\ InitCommon
    /\ InitLoop

Steps ==
    \/ TimerFire \/ Poll
    \/ ExecSkipInvalid \/ ExecBuild \/ ExecDeposit \/ ExecPropose \/ ExecUnknown
    \/ ExecFinish \/ PbpReturnTool \/ PbpReturnAuto
    \/ PbpPreflight \/ PbpNative \/ PbpV2 \/ PbpV1
    \/ Explain \/ Reschedule

Next == CallAgent \/ Steps

Spec == Init /\ [][Next]_vars

\* The loop with a decision service that honours parallel_tool_calls: false.
NextSingle == CallAgentSingle \/ Steps

\* That loop together with the DCA agent module, whose hooks the runner calls.
NextGate == NextSingle \/ OnToolOutput \/ OnProposalEvents

SpecGate == Init /\ [][NextGate]_vars

\* The agent module alone, from the state at start-up.
SpecDca == Init /\ [][NextDca]_vars

InitBuild ==
    LET \* executeToolCalls on an answer with one build_og_transactions call of up
        \* to MaxActions actions, an action without its required fields included.
        BuildActionLists ==
        UNION { [1..n -> Actions \cup { [kind |-> "erc20_transfer", to |-> "missing"] }] :
                  n \in 0..MaxActions }
    IN  /\ cfg \in { c \in Configs({TRUE}, {FALSE}, {"og"}) :
                       c.trackedAssets = <<"a1">> /\ c.startBlock = 0 }
        /\ chainLogs = {"a1"} \X (1..MaxBlock)
        /\ og = [bondAmount |-> 0, minimumBond |-> 0]
        /\ lastCheckedBlock = cfg.startBlock
        /\ lastNativeBalance = Undef
        /\ \E a \in BuildActionLists :
             resp = [NoResp EXCEPT !.toolCalls =
                        << [BaseCall EXCEPT !.name = "build_og_transactions", !.actions = a] >>]
        /\ signals = <<>> /\ lastPoll = NoPoll /\ reported = {}
        /\ idx = 1 /\ outputs = <<>> /\ builtTransactions = <<>>
        /\ pbp = NoPbp /\ writes = <<>> /\ run = [NoRun EXCEPT !.agent = "ok"]
        /\ dcaState = InitialDcaState /\ lastDcaTimestamp = 1 /\ now = 1 /\ hook = NoHook /\ InitLib
        /\ pc = "exec" /\ timers = 0 /\ active = 1

NextBuild ==
    \/ ExecBuild \/ ExecFinish
    \/ PbpPreflight \/ PbpNative \/ PbpV2 \/ PbpV1 \/ PbpReturnAuto

SpecBuild == InitBuild /\ [][NextBuild]_vars

\* ------------------------------------------- the compiler of lib/tx.js
\* The buildOgTransactions that part_003 tests (imported from lib/tx.js) also
\* compiles routed swaps and collateral splits.  An intent names its kind,
\* the contract it is for (router / split contract), the input or collateral
\* token and the amount; the other fields matter to one kind only.
Tokens == {"usdc", "weth"}

LowLevelCall(to, fn, args) == [to |-> to, fn |-> fn, args |-> args]
Approve(token, spender, amount) ==
    LowLevelCall(token, "approve", [spender |-> spender, amount |-> amount])

\* routedSwap: the allowance for the router, then the router's swap.
SwapCalls_swapFirst(intent) ==
    << LowLevelCall(intent.target, "exactInputSingle",
                    [tokenIn |-> intent.token, tokenOut |-> intent.tokenOut,
                     fee |-> intent.fee, amountIn |-> intent.amount]),
       Approve(intent.token, intent.target, intent.amount) >>
SwapCalls(intent) ==
    << Approve(intent.token, intent.target, intent.amount),
       LowLevelCall(intent.target, "exactInputSingle",
                    [tokenIn |-> intent.token, tokenOut |-> intent.tokenOut,
                     fee |-> intent.fee, amountIn |-> intent.amount]) >>

\* collateralSplit: allowance reset, allowance set, then the split.
SplitCalls_noReset(intent) ==
    << Approve(intent.token, intent.target, intent.amount),
       LowLevelCall(intent.target, "splitPosition",
                    [collateralToken |-> intent.token, partition |-> intent.partition,
                     amount |-> intent.amount]) >>
SplitCalls(intent) ==
    << Approve(intent.token, intent.target, 0),
       Approve(intent.token, intent.target, intent.amount),
       LowLevelCall(intent.target, "splitPosition",
                    [collateralToken |-> intent.token, partition |-> intent.partition,
                     amount |-> intent.amount]) >>

RECURSIVE Flatten(_)
Flatten(lists) == IF Len(lists) = 0 THEN <<>> ELSE Head(lists) \o Flatten(Tail(lists))

\* compile(intents): the expansions in order, or nothing when a kind is unknown.
compile(intents) ==
    IF \E i \in 1..Len(intents) :
          intents[i].kind \notin {"uniswap_v3_exact_input_single", "ctf_split"}
      THEN [ok |-> FALSE, txs |-> <<>>]
      ELSE [ok |-> TRUE,
            txs |-> Flatten([i \in 1..Len(intents) |->
                               IF intents[i].kind = "ctf_split"
                                 THEN SplitCalls(intents[i])
                                 ELSE SwapCalls(intents[i])])]

\* The build_og_transactions branch with that compiler.
TxCompile ==
    /\ pc = "compile"
    /\ LET b == compile(Call.actions)
       IN  /\ builtTransactions' = b.txs
           /\ outputs' = Append(outputs, Output(Call.name, IF b.ok THEN "ok" ELSE "error"))
    /\ idx' = idx + 1
    /\ pc' = "compiled"
    /\ UNCHANGED <<libVars, chainVars, dcaVars, pollVars, loopVars, resp, pbp, writes, run>>

InitTx ==
    LET Intents ==
        [kind : {"uniswap_v3_exact_input_single"}, target : {"router"}, token : Tokens,
         tokenOut : Tokens, fee : {500, 3000}, amount : 1..MaxAmount, partition : {<<>>}]
        \cup [kind : {"ctf_split"}, target : {"ctf"}, token : Tokens, tokenOut : {"none"},
               fee : {0}, amount : 1..MaxAmount, partition : {<<1, 2>>, <<2, 1>>}]
        \cup { [kind |-> "bogus", target |-> "router", token |-> "usdc", tokenOut |-> "none",
                fee |-> 0, amount |-> 1, partition |-> <<>>] }
        IntentLists == UNION { [1..n -> Intents] : n \in 1..MaxActions }
    IN  /\ cfg \in { c \in Configs({TRUE}, {FALSE}, {"og"}) :
                       c.trackedAssets = <<"a1">> /\ c.startBlock = 0 }
        /\ chainLogs = {}
        /\ og = [bondAmount |-> 0, minimumBond |-> 0]
        /\ lastCheckedBlock = cfg.startBlock
        /\ lastNativeBalance = Undef
        /\ \E a \in IntentLists :
             resp = [NoResp EXCEPT !.toolCalls =
                        << [BaseCall EXCEPT !.name = "build_og_transactions", !.actions = a] >>]
        /\ signals = <<>> /\ lastPoll = NoPoll /\ reported = {}
        /\ idx = 1 /\ outputs = <<>> /\ builtTransactions = <<>>
        /\ pbp = NoPbp /\ writes = <<>> /\ run = NoRun
        /\ dcaState = InitialDcaState /\ lastDcaTimestamp = 1 /\ now = 1 /\ hook = NoHook /\ InitLib
        /\ pc = "compile" /\ timers = 0 /\ active = 0

SpecTx == InitTx /\ [][TxCompile]_vars

\* postBondAndPropose alone, called directly, for every bond setting.
InitPropose ==
    /\ cfg \in { c \in Configs({TRUE}, {FALSE}, {"og", "oo", "both"}) :
                   c.trackedAssets = <<"a1">> /\ c.startBlock = 0 }
    /\ chainLogs = {}
    /\ og \in [bondAmount : 0..MaxBond, minimumBond : 0..MaxBond]
    /\ InitCommon
    /\ pc = "idle"
    /\ timers = 0
    /\ active = 0

NextPropose ==
    \/ DirectPropose \/ PbpPreflight \/ PbpApprove \/ PbpNative \/ PbpV2 \/ PbpV1
    \/ PbpReturnDirect

SpecPropose == InitPropose /\ [][NextPropose]_vars

\* The loop with single-call answers when every awaited step eventually
\* settles and every pending timer eventually fires.
SpecLive == Init /\ [][NextSingle]_vars /\ WF_vars(NextSingle)

\* The engine at rest, for the specifications of the library functions.
InitQuiet ==
    /\ cfg \in { c \in Configs({TRUE}, {FALSE}, {"og"}) :
                   c.trackedAssets = <<"a1">> /\ c.startBlock = 0 }
    /\ chainLogs = {}
    /\ og = [bondAmount |-> 0, minimumBond |-> 0]
    /\ lastCheckedBlock = cfg.startBlock
    /\ lastNativeBalance = Undef
    /\ signals = <<>> /\ lastPoll = NoPoll /\ reported = {} /\ resp = NoResp
    /\ idx = 0 /\ outputs = <<>> /\ builtTransactions = <<>>
    /\ pbp = NoPbp /\ writes = <<>> /\ run = NoRun
    /\ dcaState = InitialDcaState /\ lastDcaTimestamp = 1 /\ now = 1 /\ hook = NoHook
    /\ pc = "idle" /\ timers = 0 /\ active = 0

\* sanitizeInferredTriggers on every list of up to MaxTriggers raw triggers
\* (and on a value that is no array), then one cycle's selection.
InitRace ==
    LET \* One element of rawTriggers.  wellFormed: it is an object whose tokens,
        \* threshold, comparator and pool pass lines 70-86, 97 and 104-106.
        RawTriggerLists ==
        UNION { [1..n -> { t \in [id : {<<>>, <<1>>, <<2>>, DefaultId(1)}, hasPriority : BOOLEAN,
                                  priority : -1..1, wellFormed : BOOLEAN] :
                             ~t.hasPriority => t.priority = 0 }] : n \in 0..MaxTriggers }
    IN  /\ InitQuiet
        /\ \E isArray \in BOOLEAN, raw \in RawTriggerLists :
             /\ (~isArray => raw = <<>>)
             /\ race = [NoRace EXCEPT !.pc = "raw", !.isArray = isArray, !.raw = raw]
        /\ clob = NoClob /\ timelock = NoTimelock /\ copyTrade = NoCopyTrade
        /\ depositTool = NoDepositTool /\ triggerCache = NoTriggerCache

SpecRace == InitRace /\ [][NextRace]_vars

\* One trading-venue call, for every argument shape, retry setting and
\* scripted transport; each awaited fetch eventually settles.
InitClob ==
    LET ClobScripts ==
        UNION { [1..n -> [status : {200}, text : {"json", "empty", "garbage"}]
                           \cup [status : {400, 500, 503}, text : {"json"}]] :
                  n \in 1..MaxScript }
        \* The arguments of the two exported functions, as far as the code tests them.
        ClobArgs ==
        [fn : {"placeClobOrder"}, signedOrder : BOOLEAN, owner : BOOLEAN, orderType : BOOLEAN]
        \cup { a \in [fn : {"cancelClobOrders"}, mode : {"all", "market", "ids"},
                      hasMarket : BOOLEAN, hasOrderIds : BOOLEAN] :
                 /\ a.mode # "market" => ~a.hasMarket
                 /\ a.mode # "ids" => ~a.hasOrderIds }
    IN  /\ InitQuiet
        /\ race = NoRace /\ timelock = NoTimelock /\ copyTrade = NoCopyTrade
        /\ depositTool = NoDepositTool /\ triggerCache = NoTriggerCache
        /\ \E a \in ClobArgs, c \in BOOLEAN, m \in 0..MaxRetries, s \in ClobScripts :
             clob = [NoClob EXCEPT !.pc = "call", !.args = a, !.credentials = c,
                                   !.maxRetries = m, !.script = s]

SpecClob == InitClob /\ [][NextClob]_vars /\ WF_vars(NextClob)

\* extractTimelockTriggers on every rules text and deposit list, then the
\* due filter at a time around each trigger's timestamp.
InitTimelock ==
    LET RulesTexts ==
        { <<"withdrawn">> \o a \o <<u, "after", "deposit">> : a \in AmountTexts, u \in UnitWords }
            \cup { <<>>, <<"withdrawn", "anytime">> }
        \* Deposits as the caller passes them; timestampMs 0 stands for a missing one.
        DepositLists ==
        UNION { [1..n -> [id : {"dep1", "dep2"}, timestampMs : {0, 1000}]] : n \in 0..MaxDeposits }
    IN  /\ InitQuiet
        /\ race = NoRace /\ clob = NoClob /\ copyTrade = NoCopyTrade
        /\ depositTool = NoDepositTool /\ triggerCache = NoTriggerCache
        /\ \E t \in RulesTexts, isArray \in BOOLEAN, d \in DepositLists :
             /\ (~isArray => d = <<>>)
             /\ timelock = [NoTimelock EXCEPT !.pc = "rules", !.rulesText = t,
                                              !.isArray = isArray, !.deposits = d]

SpecTimelock == InitTimelock /\ [][NextTimelock]_vars

\* The engine at rest and no library call made yet.
InitIdle == InitQuiet /\ InitLib

\* The deposit tools called in any order with any arguments.
SpecDeposit == InitIdle /\ [][NextDeposit]_vars

\* getPriceTriggers called in any order, up to MaxInflight requests awaiting
\* their answers at a time.
SpecCache == InitIdle /\ [][NextCache]_vars

\* The copy-trading agent module alone, from its reset state.
SpecCopy == InitIdle /\ [][NextCopy]_vars

\* ------------------------------------------------------------- properties
\* Tracked deposits at or below the cursor that were never returned as signals.
Dropped ==
    { l \in chainLogs :
        /\ \E i \in 1..Len(cfg.trackedAssets) : cfg.trackedAssets[i] = l[1]
        /\ l[2] > cfg.startBlock
        /\ l[2] <= lastCheckedBlock
        /\ l \notin reported }

\* C3: range-level cursor atomicity.  A pollCommitmentChanges call in which
\* any query rejected leaves the cursor and the native baseline as they were
\* and returns nothing; the cursor moves only in a call without a failure,
\* and then to the head; no tracked deposit at or below the cursor was left
\* unreported.
C3_CursorAtomicity ==
    /\ (lastPoll.called /\ lastPoll.failed)
          => /\ lastCheckedBlock = lastPoll.cursorBefore
             /\ lastNativeBalance = lastPoll.baselineBefore
             /\ signals = <<>>
    /\ (lastPoll.called /\ lastCheckedBlock # lastPoll.cursorBefore)
          => ~lastPoll.failed /\ lastCheckedBlock = lastPoll.latest
    /\ Dropped = {}

\* The second getLogs call of a range rejected after the first one had found
\* a deposit in that range.
C3_Witness ==
    /\ lastPoll.called /\ lastPoll.failed
    /\ lastPoll.failAt = 2
    /\ lastPoll.latest > lastPoll.cursorBefore
    /\ <<cfg.trackedAssets[1], lastPoll.latest>> \in chainLogs

\* C4: idempotent detection.  A pollCommitmentChanges call that reads a head
\* at or below the cursor returns no signal, does not fail and leaves the
\* cursor (and the native baseline) unchanged.
C4_IdempotentDetection ==
    (lastPoll.called /\ lastPoll.latest # Fail /\ lastPoll.latest <= lastPoll.cursorBefore)
        => /\ signals = <<>>
           /\ ~lastPoll.failed
           /\ lastCheckedBlock = lastPoll.cursorBefore
           /\ lastNativeBalance = lastPoll.baselineBefore

\* A call that found the head exactly where an earlier call had left the cursor.
C4_Witness ==
    /\ lastPoll.called
    /\ lastPoll.latest = lastPoll.cursorBefore
    /\ lastPoll.cursorBefore > cfg.startBlock
    /\ pc = "tail"

\* C5: cycles never overlap.  At most one agentLoop invocation is in progress
\* and at most one timer is pending; a timer is pending exactly when no
\* invocation is in progress.
C5_NoOverlap ==
    /\ active <= 1
    /\ timers <= 1
    /\ active + timers = 1
    /\ (pc = "timer") <=> (timers = 1)

\* A later cycle (the cursor has moved) at its last awaited step.
C5_Witness ==
    /\ pc = "explain"
    /\ lastPoll.cursorBefore > 0
    /\ active = 1
    /\ timers = 0

\* Something failed in the cycle in progress.
CycleFailed == run.caught \/ lastPoll.failed \/ pbp.status = "threw"

\* C6: per-cycle error isolation.  Whenever something failed in a cycle, a
\* later cycle starts (the next agentLoop invocation reaches its poll).
C6_ErrorIsolation == CycleFailed ~> (pc = "poll" /\ ~CycleFailed)

\* A proposal submission failed and the error was caught.
C6_Witness == pbp.status = "threw" /\ run.caught /\ pc = "tail"

\* C7: no partial execution on a decision-protocol error.  When the answer
\* of the decision service has a non-2xx status or unparseable text, no tool
\* call of it is executed and no ledger write is sent in that cycle.
C7_NoPartialExecution ==
    (~resp.http \/ resp.text = "garbage")
        => /\ idx = 0
           /\ outputs = <<>>
           /\ writes = <<>>
           /\ pbp = NoPbp
           /\ builtTransactions = <<>>

\* Unparseable text next to tool-call items: the cycle ended with the error caught.
C7_Witness ==
    /\ resp.text = "garbage"
    /\ Len(resp.toolCalls) > 0
    /\ run.caught
    /\ pc = "tail"

\* The ledger writes of the given kind sent in the cycle (or call) in progress.
Sent(kind) == { i \in 1..Len(writes) : writes[i].kind = kind }

\* C1: at most one unconfirmed proposal.  While the agent state records a
\* posted proposal, no proposal is submitted: neither a post_bond_and_propose
\* call nor the automatic proposal after build_og_transactions sends one.
C1_SingleOutstandingProposal ==
    getPendingProposal(dcaState, FALSE) => Sent("propose") = {}

\* C2: deposit idempotency.  While depositConfirmed is set, no deposit
\* transaction is sent.
C2_DepositOnce ==
    dcaState.depositConfirmed => Sent("deposit") = {}

\* C8: recipient constraint.  Every transaction of a submitted proposal pays
\* the agent's own address or the commitment safe.
C8_RecipientConstraint ==
    \A i \in Sent("propose") :
        \A j \in 1..Len(writes[i].txs) : writes[i].txs[j].recipient \in {"agent", "safe"}

\* The errors of lines 262-308.
PreflightErrors == {"collateral", "allowance", "native"}
ProposalEvents == { i \in 1..Len(pbp.events) : pbp.events[i].op \in {"simulate", "propose"} }

\* C9 as stated: a preflight failure of postBondAndPropose is raised before
\* any ledger write (approve or propose) has been sent.
C9_PreflightBeforeAnyWrite ==
    (pbp.status = "threw" /\ pbp.error \in PreflightErrors) => writes = <<>>

\* C9, amended: a preflight failure of postBondAndPropose is raised before
\* any proposal is simulated or sent, so no proposal is submitted in that
\* call; the collateral failure is raised before any ledger write at all; and
\* a call that read a zero native balance never simulates or sends a proposal.
C9_PreflightBeforeProposal ==
    /\ (pbp.status = "threw" /\ pbp.error \in PreflightErrors)
          => ProposalEvents = {} /\ Sent("propose") = {}
    /\ (pbp.status = "threw" /\ pbp.error = "collateral")
          => writes = <<>> /\ pbp.events = <<>>
    /\ (pbp.gas = 0) => ProposalEvents = {} /\ Sent("propose") = {}

\* The zero native balance was reported after an approve had been sent.
C9_Witness ==
    /\ pbp.status = "threw"
    /\ pbp.error = "native"
    /\ Sent("approve") # {}

\* C10: version fallback order.  A proposal write is sent right after the
\* successful simulation of the same version, and V1 is attempted only after
\* the V2 simulation failed.
C10_VersionFallbackOrder ==
    /\ \A i \in 1..Len(pbp.events) :
          pbp.events[i].op = "propose"
            => i > 1 /\ pbp.events[i - 1] = Event("simulate", pbp.events[i].arg, TRUE)
    /\ \A i \in 1..Len(pbp.events) :
          (pbp.events[i].op = "simulate" /\ pbp.events[i].arg = "V1")
            => \E j \in 1..(i - 1) : pbp.events[j] = Event("simulate", "V2", FALSE)

\* C11: the version-fallback-exhausted error is raised only if the
\* simulation of every interface version failed, and it carries the failure
\* message of the last version attempted (V1).
C11_FallbackExhausted ==
    (pbp.status = "threw" /\ pbp.error = "simulation")
        => /\ \E i \in 1..Len(pbp.events) : pbp.events[i] = Event("simulate", "V2", FALSE)
           /\ \E i \in 1..Len(pbp.events) : pbp.events[i] = Event("simulate", "V1", FALSE)
           /\ pbp.message \in {"V1.shortMessage", "V1.message"}

\* C12: every transaction of a submitted proposal was produced by
\* buildOgTransactions; a low-level call authored in the tool arguments is
\* never submitted as it is.
C12_CompiledOnly ==
    \A i \in Sent("propose") :
        \A j \in 1..Len(writes[i].txs) : writes[i].txs[j].origin = "compiled"

\* C13: allowance confirmation.  Every approve that was sent is followed by
\* the re-read of that spender's allowance (unless the receipt or the read
\* itself rejected); a re-read below requiredBond ends the call with the
\* allowance error before any proposal is simulated or sent; and a proposal
\* is simulated or sent only after every configured spender's re-read
\* allowance met requiredBond.
C13_AllowanceConfirmation ==
    LET ev == pbp.events
        n == Len(ev)
    IN  /\ \A i \in 1..n :
              (ev[i].op = "approve" /\ ev[i].ok)
                => \/ i < n /\ ev[i + 1].op = "allowance" /\ ev[i + 1].arg = ev[i].arg
                   \/ i = n /\ pbp.status = "threw" /\ pbp.error = "rpc"
        /\ \A i \in 1..n :
              (ev[i].op = "allowance" /\ ~ev[i].ok)
                => i = n /\ pbp.status = "threw" /\ pbp.error = "allowance"
        /\ (pbp.required > 0 /\ ProposalEvents # {})
              => \A k \in 1..Len(Spenders(cfg.bondSpender)) :
                    \E i \in 1..n :
                        /\ ev[i] = Event("allowance", Spenders(cfg.bondSpender)[k], TRUE)
                        /\ \A j \in ProposalEvents : i < j

\* A proposal went out after both spenders' allowances were confirmed.
C13_Witness ==
    /\ pbp.status = "returned"
    /\ pbp.required > 0
    /\ cfg.bondSpender = "both"
    /\ Sent("propose") # {}

\* The actions of the one build_og_transactions call of SpecBuild.
BuildBatch == resp.toolCalls[1].actions
Compilable(actions) ==
    /\ Len(actions) > 0
    /\ \A i \in 1..Len(actions) : KnownKind(actions[i]) /\ ~MissingField(actions[i])

\* C14: compilation is all-or-nothing.  Once the build_og_transactions call
\* has been processed, either every action was compilable and the recorded
\* transactions cover every action of the batch in order, or the build
\* failed and no transaction of the batch is recorded as built or proposed.
C14_AllOrNothing ==
    (idx > 1 /\ resp.toolCalls[1].name = "build_og_transactions")
        => \/ /\ Compilable(BuildBatch)
              /\ outputs[1].status = "ok"
              /\ Len(builtTransactions) = Len(BuildBatch)
              /\ \A i \in 1..Len(BuildBatch) :
                    builtTransactions[i].recipient = BuildBatch[i].to
              /\ \A w \in Sent("propose") : writes[w].txs = builtTransactions
           \/ /\ ~Compilable(BuildBatch)
              /\ outputs[1].status = "error"
              /\ builtTransactions = <<>>
              /\ writes = <<>>
              /\ pbp = NoPbp

\* A batch whose first action compiles and whose second is of unknown kind.
C14_Witness ==
    /\ idx > 1
    /\ Len(BuildBatch) = 2
    /\ KnownKind(BuildBatch[1]) /\ ~MissingField(BuildBatch[1])
    /\ ~KnownKind(BuildBatch[2])
    /\ outputs[1].status = "error"
    /\ pc = "tail"

\* The one intent of a single-intent batch, once it has been compiled.
Compiled(kind) ==
    /\ pc = "compiled"
    /\ Len(BuildBatch) = 1
    /\ BuildBatch[1].kind = kind

\* C15: approve-before-swap.  Compiling a single routed-swap intent returns
\* exactly 2 calls: the approve on the input token (for the router, of the
\* input amount) at index 1 and the exactInputSingle call on the router at
\* index 2.
C15_ApproveBeforeSwap ==
    Compiled("uniswap_v3_exact_input_single")
        => /\ Len(builtTransactions) = 2
           /\ builtTransactions[1].fn = "approve"
           /\ builtTransactions[1].to = BuildBatch[1].token
           /\ builtTransactions[1].args.spender = BuildBatch[1].target
           /\ builtTransactions[1].args.amount = BuildBatch[1].amount
           /\ builtTransactions[2].fn = "exactInputSingle"
           /\ builtTransactions[2].to = BuildBatch[1].target

C15_Witness ==
    /\ Compiled("uniswap_v3_exact_input_single")
    /\ BuildBatch[1].token = "usdc" /\ BuildBatch[1].tokenOut = "weth"
    /\ outputs[1].status = "ok"

\* C16: split ordering.  Compiling a single collateral-split intent of
\* amount A returns exactly 3 calls: approve(splitContract, 0) and
\* approve(splitContract, A) on the collateral token, then splitPosition on
\* the split contract with the intent's partition and amount A.
C16_SplitOrdering ==
    Compiled("ctf_split")
        => LET in == BuildBatch[1]
               tx == builtTransactions
           IN  /\ Len(tx) = 3
               /\ tx[1] = Approve(in.token, in.target, 0)
               /\ tx[2] = Approve(in.token, in.target, in.amount)
               /\ tx[3].fn = "splitPosition"
               /\ tx[3].to = in.target
               /\ tx[3].args.partition = in.partition
               /\ tx[3].args.amount = in.amount

C16_Witness ==
    /\ Compiled("ctf_split")
    /\ BuildBatch[1].amount = MaxAmount
    /\ BuildBatch[1].partition = <<1, 2>>
    /\ outputs[1].status = "ok"

NoFlagSet(st) == ~st.depositConfirmed /\ ~st.proposalBuilt /\ ~st.proposalPosted

\* C17: step flags reset together.  After a call that reset the state (an
\* executed or deleted proposal event, a reverted receipt, the reconciliation
\* timeout) depositConfirmed, proposalBuilt and proposalPosted are all false.
C17_ResetTogether == hook.reset => NoFlagSet(dcaState)

\* The reconciliation timeout cleared a posted proposal.
C17_Witness ==
    /\ hook.kind = "reconcile"
    /\ hook.reset
    /\ hook.receipt = "throws"
    /\ hook.before.proposalPosted

\* C18: step flags advance forward only.  A tool output sets proposalBuilt
\* only when depositConfirmed is already set and proposalPosted only when
\* proposalBuilt is already set, and it clears proposalPosted only by
\* clearing all three flags.
C18_ForwardOnly ==
    hook.kind = "tool"
        => /\ (~hook.before.proposalBuilt /\ dcaState.proposalBuilt)
                => hook.before.depositConfirmed
           /\ (~hook.before.proposalPosted /\ dcaState.proposalPosted)
                => hook.before.proposalBuilt
           /\ (hook.before.proposalPosted /\ ~dcaState.proposalPosted)
                => NoFlagSet(dcaState)

\* C19: a posted proposal is not retained past the reconciliation timeout.
\* A reconciliation pass made more than proposalConfirmTimeoutMs after the
\* submission, which finds no receipt for it, clears the proposal:
\* proposalPosted false, submission hash and time null.
C19_AbandonedCleared ==
    (/\ hook.kind = "reconcile"
     /\ hook.before.proposalPosted
     /\ hook.receipt = "throws"
     /\ hook.elapsed > proposalConfirmTimeoutMs)
        => /\ ~dcaState.proposalPosted
           /\ dcaState.proposalSubmitHash = Null
           /\ dcaState.proposalSubmitMs = 0

\* The output handed to onToolOutput reports that tool's success status.
ToolSucceeded ==
    /\ hook.present
    /\ \/ hook.name = "make_deposit" /\ hook.status = "confirmed"
       \/ hook.name = "build_og_transactions" /\ hook.status = "ok"
       \/ hook.name = "post_bond_and_propose" /\ hook.status = "submitted"

\* C20: state mutations commit only on confirmed success.  An onToolOutput
\* call whose output is missing, has no tool name, reports 'error' or any
\* status other than that tool's success status, or names an unknown tool,
\* leaves the DCA state as it was.
C20_CommitOnSuccessOnly ==
    (hook.kind = "tool" /\ ~ToolSucceeded) => dcaState = hook.before

\* A deposit that was only submitted, reported while a proposal is posted.
C20_Witness ==
    /\ hook.kind = "tool"
    /\ hook.name = "make_deposit"
    /\ hook.present
    /\ hook.status = "submitted"
    /\ hook.before.proposalPosted

\* C21: cyclesCompleted is an integer in 0..maxCycles in every reachable state,
\* no call of the agent module lowers it, and an event with executed
\* proposals leaves it at min(maxCycles, previous + executedProposalCount).
C21_CycleCounterBounded ==
    /\ dcaState.cyclesCompleted \in 0..MAX_CYCLES
    /\ dcaState.cyclesCompleted >= hook.before.cyclesCompleted
    /\ (hook.kind = "events" /\ hook.executed > 0)
         => dcaState.cyclesCompleted =
              Min(MAX_CYCLES, hook.before.cyclesCompleted + hook.executed)
    /\ ~(hook.kind = "events" /\ hook.executed > 0)
         => dcaState.cyclesCompleted = hook.before.cyclesCompleted

\* An executed-proposal event arrived when the sum exceeded maxCycles.
C21_Witness ==
    /\ hook.kind = "events"
    /\ hook.executed > 0
    /\ hook.before.cyclesCompleted + hook.executed > MAX_CYCLES
    /\ dcaState.cyclesCompleted = MAX_CYCLES

ClobSettled ==
    /\ clob.pc \in {"returned", "thrown"}
    /\ clob.attempts > 0

\* C23: a cancelClobOrders call with retries configured whose transport
\* answers 500 and then 200 returns the body of the 200 response after
\* exactly two transport attempts.
C23_TransientRetry ==
    ( /\ ClobSettled
      /\ clob.args.fn = "cancelClobOrders"
      /\ clob.maxRetries > 0
      /\ Len(clob.script) = 2
      /\ clob.script[1].status = 500
      /\ clob.script[2].status = 200 )
    => /\ clob.pc = "returned"
       /\ clob.result = ParseBody(clob.script[2].text)
       /\ clob.attempts = 2

\* C24: placeClobOrder never makes a second transport attempt; when its
\* POST /order is answered 500 it rejects with the request error for
\* POST /order and status 500 after exactly one attempt, whatever the
\* configured retry count.
C24_OrderNeverRetried ==
    clob.args.fn = "placeClobOrder" =>
        /\ clob.attempts <= 1
        /\ (ClobSettled /\ clob.script[1].status = 500) =>
              /\ clob.pc = "thrown"
              /\ clob.attempts = 1
              /\ clob.error = [kind |-> "request", method |-> "POST", path |-> "/order",
                               status |-> 500]

\* An order placement with retries configured was answered 500 and rejected.
C24_Witness ==
    /\ clob.args.fn = "placeClobOrder"
    /\ clob.maxRetries > 0
    /\ clob.script[1].status = 500
    /\ clob.pc = "thrown"
    /\ clob.attempts = 1

\* Every attempt of the call in progress was answered with a 5xx status.
AllAttempts5xx ==
    \A i \in 1..clob.attempts :
        clob.script[IF i <= Len(clob.script) THEN i ELSE Len(clob.script)].status >= 500

Denotes(a) ==
    CASE a = <<"5">> -> 5 [] a = <<"0">> -> 0 [] a = <<"15">> -> 15
      [] a = <<"five">> -> 5 [] a = <<"twelve">> -> 12 [] a = <<"thirteen">> -> 13
      [] a = <<"twenty", "-", "one">> -> 21
MsOf(u) ==
    CASE u \in {"minute", "minutes"} -> 60 * 1000
      [] u \in {"hour", "hours"} -> 60 * 60 * 1000
      [] u \in {"day", "days"} -> 24 * 60 * 60 * 1000

\* C26: for rules text with 'N <unit> after deposit' and one deposit with
\* timestamp T, extractTimelockTriggers yields exactly one trigger, a
\* relative one for that deposit with timestampMs = T + N * unitMs, and the
\* due triggers at nowMs are exactly those with timestampMs <= nowMs.
C26_RelativeTimelock ==
    /\ \A a \in AmountTexts, u \in UnitWords :
         ( /\ timelock.pc \in {"extracted", "filtered"}
           /\ timelock.rulesText = <<"withdrawn">> \o a \o <<u, "after", "deposit">>
           /\ timelock.isArray
           /\ Len(timelock.deposits) = 1
           /\ timelock.deposits[1].timestampMs > 0 )
         => /\ Len(timelock.triggers) = 1
            /\ timelock.triggers[1].kind = "relative"
            /\ timelock.triggers[1].deposit = timelock.deposits[1]
            /\ timelock.triggers[1].timestampMs =
                 timelock.deposits[1].timestampMs + Denotes(a) * MsOf(u)
    /\ timelock.pc = "filtered" =>
         timelock.due = { i \in 1..Len(timelock.triggers) :
                            timelock.triggers[i].timestampMs <= timelock.nowMs }

\* C27: after post_bond_and_propose was reported submitted with hash H, an
\* executed-proposal event without H leaves the copy-trading state as it
\* was and one with H clears the active trade and records its id as seen;
\* no other call clears an active trade.
C27_ProposalHashGating ==
    LET before == copyTrade.last.before
        H == before.reimbursementProposalHash
    IN  /\ ( /\ copyTrade.last.kind = "events"
             /\ before.reimbursementProposed
             /\ H # Null )
           => IF H \in copyTrade.last.executed
                THEN /\ copyTrade.state.activeSourceTradeId = Null
                     /\ copyTrade.state.seenSourceTradeId = before.activeSourceTradeId
                ELSE copyTrade.state = before
        /\ ( /\ before.activeSourceTradeId # Null
             /\ copyTrade.state.activeSourceTradeId = Null )
           => /\ copyTrade.last.kind = "events"
              /\ H # Null
              /\ H \in copyTrade.last.executed

\* With a trade active and its proposal submitted, an event that executed
\* another proposal only has left the state as it was.
C27_Witness ==
    /\ copyTrade.last.kind = "events"
    /\ copyTrade.last.executed # {}
    /\ copyTrade.last.before.reimbursementProposed
    /\ copyTrade.last.before.reimbursementProposalHash \notin copyTrade.last.executed
    /\ copyTrade.state.activeSourceTradeId # Null
    /\ copyTrade.state = copyTrade.last.before

\* A tool call the engine rejects: unparseable arguments or an unknown name.
Rejected(call) == ~call.argsOk \/ call.name \notin ToolNames

\* C28: when the tool call in turn is rejected, the step that handles it
\* sends no ledger write, raises nothing, appends a refusal output for that
\* call to the outputs handed to the explanation round-trip, and moves on to
\* the next call of the batch.
C28_RejectedCallNeverAborts ==
    [][ (InLoop /\ Rejected(Call)) =>
          /\ writes' = writes
          /\ run' = run
          /\ pc' = pc
          /\ idx' = idx + 1
          /\ outputs' = Append(outputs, Output(Call.name, "skipped")) ]_vars

\* C29: no write of the deployment is sent while an earlier one is still in
\* flight: when a write is sent, the receipt of the write before it has
\* been seen.
C29_SequentialWrites ==
    \A i \in 2..Len(writes) : writes[i - 1].awaited

\* The deposits a list of signals reports: <<asset, block>> of each.
SignalIds(sigs) == { <<sigs[i].asset, sigs[i].blockNumber>> : i \in 1..Len(sigs) }

\* The decision request of the cycle in progress was answered with a
\* transport / HTTP error.
DecisionFailed == run.agent = "threw" /\ ~resp.http

\* C30: a transport / HTTP error of the decision service is a hard error for
\* the cycle: no second request is sent and no tool call runs in that cycle;
\* and every signal of that cycle is handed to the decision service again in
\* a later cycle.
C30_RetriedNextCycle ==
    /\ [](DecisionFailed => idx = 0 /\ writes = <<>> /\ pc = "tail")
    /\ [][DecisionFailed => (run' = run /\ resp' = resp) \/ run' = NoRun]_vars
    /\ \A d \in Assets \X Blocks :
         (DecisionFailed /\ d \in SignalIds(signals))
             ~> (pc = "decide" /\ d \in SignalIds(signals))

\* The explanation request of the cycle in progress failed.
ExplainFailed == run.explain = "failed"

\* C31: a failed explanation round-trip is never fatal.  It leaves the tool
\* calls of the cycle as they were executed (outputs, writes and proposal
\* untouched, no call executed again), the cycle goes on to its tail, and
\* the next cycle starts.
C31_ExplainNeverFatal ==
    /\ [](ExplainFailed => pc = "tail" /\ run.caught /\ idx > Len(resp.toolCalls))
    /\ [][pc = "explain" =>
            /\ pc' = "tail"
            /\ <<writes, outputs, pbp, builtTransactions, idx>>' =
                   <<writes, outputs, pbp, builtTransactions, idx>>]_vars
    /\ [][ExplainFailed => /\ run' = NoRun
                           /\ timers' = timers + 1
                           /\ pc' = "timer"]_vars
    /\ (ExplainFailed ~> pc = "poll")

\* The explanation failed after a proposal had been written to the ledger.
C31_Witness == ExplainFailed /\ Len(writes) > 0 /\ pc = "tail"

\* Every write of the last deposit-tool call moves funds from the signer to
\* the vault, by the function the tool and the asset call for, and a call
\* that threw sent no write.
DepositWritesToVault ==
    /\ \A i \in 1..Len(depositTool.writes) :
         LET w == depositTool.writes[i]
         IN  /\ w.from = "signer" /\ w.to = "safe"
             /\ depositTool.fn = "makeDeposit" =>
                    w.fn = (IF w.token = "zero" THEN "sendTransaction" ELSE "transfer")
             /\ depositTool.fn = "makeErc1155Deposit" =>
                    w.fn = "safeTransferFrom" /\ w.token = depositTool.asset
    /\ depositTool.threw => depositTool.writes = <<>>
    /\ (depositTool.fn = "makeErc1155Deposit" /\ depositTool.amount <= 0) =>
           depositTool.threw /\ depositTool.writes = <<>>

\* C32 as stated: deposit tools only move funds from the signer to the vault,
\* and makeDeposit throws before any write whenever the asset or the amount
\* argument is missing.
C32_DepositToolsEager_AsStated ==
    /\ DepositWritesToVault
    /\ (depositTool.fn = "makeDeposit"
          /\ (depositTool.asset = "missing" \/ depositTool.amount = Undef))
           => depositTool.threw /\ depositTool.writes = <<>>

\* C32: deposit tools only move funds from the signer to the vault, and
\* makeDeposit throws before any write whenever neither the argument nor the
\* configured default gives the asset, or neither gives the amount.
C32_DepositToolsEager ==
    /\ DepositWritesToVault
    /\ (depositTool.fn = "makeDeposit"
          /\ \/ depositTool.asset = "missing" /\ depositTool.defaultAsset = "missing"
             \/ depositTool.amount = Undef /\ depositTool.defaultAmount = Undef)
           => depositTool.threw /\ depositTool.writes = <<>>

\* makeDeposit was called without an asset, no default asset is configured
\* and the wallet would have accepted the transaction: the call threw.
C32_Witness ==
    /\ depositTool.fn = "makeDeposit"
    /\ depositTool.asset = "missing" /\ depositTool.defaultAsset = "missing"
    /\ depositTool.amount = 1 /\ depositTool.sent
    /\ depositTool.threw /\ depositTool.writes = <<>>

\* startAgent has just returned in a deployment without START_BLOCK, having
\* read the head h.
StartedAt(h) ==
    /\ cfg.startBlock = Undef
    /\ pc = "timer" /\ ~lastPoll.called /\ lastPoll.latest = h

\* C33: first invocation without a prior cursor.  The cursor becomes the head
\* that was read, the native baseline is primed when native watching is on,
\* no signal is returned, and no deposit at or before that head is ever
\* reported afterwards.  pollCommitmentChanges called without a cursor does
\* the same.
C33_FirstInvocationPrimes ==
    /\ \A h \in Blocks :
         [](StartedAt(h) =>
               /\ lastCheckedBlock = h
               /\ cfg.watchNativeBalance => lastNativeBalance \in 0..MaxNative
               /\ signals = <<>> /\ reported = {})
    /\ \A h \in Blocks :
         [](StartedAt(h) => [](\A d \in reported : d[2] > h))
    /\ [](\A e \in PollEnvs(cfg.trackedAssets) :
            LET r == pollCommitmentChanges(Undef, Undef, cfg.watchNativeBalance,
                                           cfg.trackedAssets, e)
            IN  ~r.threw => /\ r.cursor = e.latest
                            /\ r.signals = <<>>
                            /\ cfg.watchNativeBalance => r.baseline = e.nat)

\* Started at head 2 with a deposit on chain at block 1, and a later cycle
\* has reported the deposit of block 3.
C33_Witness ==
    /\ cfg.startBlock = Undef
    /\ <<"a1", 1>> \in chainLogs
    /\ <<"a1", 3>> \in reported
    /\ <<"a1", 2>> \notin reported /\ <<"a1", 2>> \in chainLogs

\* C34: the block cursor never decreases, whatever a detection cycle reads:
\* a rejected query, a head below the cursor, or a new range.
C34_CursorMonotone == [][lastCheckedBlock' >= lastCheckedBlock]_vars

\* A successful poll read a head below the cursor that an earlier cycle had
\* advanced.
C34_Witness ==
    /\ lastPoll.called /\ ~lastPoll.failed
    /\ lastPoll.latest # Fail /\ lastPoll.latest < lastPoll.cursorBefore
    /\ lastPoll.cursorBefore > cfg.startBlock
    /\ lastCheckedBlock = lastPoll.cursorBefore

\* The positions of the native-deposit signals in a list of signals.
NativeAt(sigs) == { i \in 1..Len(sigs) : sigs[i].kind = "nativeDeposit" }

\* What C35 says of the result r of a successful detection over a new range
\* with native watching on, given the baseline before and the balance read.
NativeDetectionOk(r, baselineBefore, balance, head) ==
    /\ r.baseline = balance
    /\ (NativeAt(r.signals) # {}) <=> (baselineBefore # Undef /\ balance > baselineBefore)
    /\ NativeAt(r.signals) \subseteq {Len(r.signals)}
    /\ \A i \in NativeAt(r.signals) :
         /\ r.signals[i].amount = balance - baselineBefore
         /\ r.signals[i].blockNumber = head

\* C35: native deposit detection.  In a successful detection over a new block
\* range with native watching on, a nativeDeposit signal is emitted exactly
\* when a baseline exists and the balance exceeds it, its amount is the
\* difference, it comes after every asset-transfer signal, and the baseline
\* becomes the balance read whether it rose, fell or stayed.  Stated of the
\* poll that has just run and of every poll that may run when one is due.
C35_NativeDetection ==
    /\ (lastPoll.called /\ ~lastPoll.failed /\ cfg.watchNativeBalance
          /\ lastPoll.latest > lastPoll.cursorBefore)
           => NativeDetectionOk([baseline |-> lastNativeBalance, signals |-> signals],
                                lastPoll.baselineBefore, lastNativeBalance, lastPoll.latest)
    /\ pc = "poll" =>
         \A e \in PollEnvs(cfg.trackedAssets), baseline \in {Undef, lastNativeBalance} :
            LET r == pollCommitmentChanges(lastCheckedBlock, baseline, TRUE,
                                           cfg.trackedAssets, e)
            IN  (~r.threw /\ e.latest > lastCheckedBlock)
                    => NativeDetectionOk(r, baseline, e.nat, e.latest)

\* A poll found an asset transfer and a risen native balance in one range.
C35_Witness ==
    /\ lastPoll.called /\ ~lastPoll.failed /\ cfg.watchNativeBalance
    /\ Len(signals) = 2
    /\ signals[1].kind = "erc20Deposit" /\ signals[2].kind = "nativeDeposit"
    /\ signals[2].amount = 2

\* C36: submission bookkeeping follows the posted flag.  While proposalPosted
\* is set a submission time is recorded, and while it is not set neither a
\* submission time nor a submission hash is recorded (0 and Null stand for
\* null).
C36_SubmissionBookkeeping ==
    /\ dcaState.proposalPosted => dcaState.proposalSubmitMs # 0
    /\ ~dcaState.proposalPosted =>
           dcaState.proposalSubmitMs = 0 /\ dcaState.proposalSubmitHash = Null

\* The loop of executeToolCalls went through every call of the batch and the
\* code after the loop has run.
BatchProcessed ==
    /\ run.agent = "ok"
    /\ Len(resp.toolCalls) > 0
    /\ idx > Len(resp.toolCalls)
    /\ pc # "exec"

\* The positions of the batch's build_og_transactions calls that succeeded.
SuccessfulBuilds(calls) ==
    { i \in 1..Len(calls) :
        /\ calls[i].name = "build_og_transactions"
        /\ calls[i].argsOk
        /\ buildOgTransactions(calls[i].actions).ok }
LastSuccessfulBuild(calls) ==
    LET S == SuccessfulBuilds(calls)
        last == CHOOSE i \in S : \A j \in S : j <= i
    IN  buildOgTransactions(calls[last].actions).txs
AutoProposed == pbp.caller = "auto"

\* C37: the auto-proposal rule of executeToolCalls.  After all tool calls of
\* a batch were processed, postBondAndPropose has been invoked automatically
\* if and only if some build_og_transactions call of the batch succeeded and no
\* call named post_bond_and_propose appears in the batch, valid arguments or
\* not; it is invoked once, only after the last call of the batch, with the
\* transactions of the last successful build, and sends at most one proposal.
C37_AutoProposalRule ==
    /\ [](BatchProcessed =>
            /\ AutoProposed <=>
                  /\ SuccessfulBuilds(resp.toolCalls) # {}
                  /\ \A i \in 1..Len(resp.toolCalls) :
                        resp.toolCalls[i].name # "post_bond_and_propose"
            /\ AutoProposed =>
                  /\ pbp.txs = LastSuccessfulBuild(resp.toolCalls)
                  /\ Cardinality(Sent("propose")) <= 1
                  /\ pbp.status = "returned" => Cardinality(Sent("propose")) = 1)
    /\ [](AutoProposed => idx > Len(resp.toolCalls))
    /\ [][AutoProposed /\ pbp' # NoPbp
            => pbp'.caller = "auto" /\ pbp'.txs = pbp.txs /\ pc' # "exec"]_vars

\* A batch whose build succeeded and whose post_bond_and_propose call was
\* skipped for its arguments ended without a proposal, and a batch of two
\* successful builds proposed the second one.
C37_Witness ==
    /\ BatchProcessed
    /\ pc = "tail"
    /\ \/ /\ SuccessfulBuilds(resp.toolCalls) # {}
          /\ \E i \in 1..Len(resp.toolCalls) : ~resp.toolCalls[i].argsOk
          /\ ~AutoProposed /\ Sent("propose") = {}
       \/ /\ SuccessfulBuilds(resp.toolCalls) = {1, 2}
          /\ AutoProposed /\ pbp.status = "returned"

\* The calls of the batch before position n whose arguments parsed: the
\* calls the loop executed on its way to n.
ExecutedBefore(n) ==
    { i \in 1..Len(resp.toolCalls) : i < n /\ resp.toolCalls[i].argsOk }
\* executeToolCalls threw at the call at idx and decideOnSignals caught it.
BatchAborted ==
    /\ run.agent = "ok" /\ run.caught
    /\ idx <= Len(resp.toolCalls)

\* C38: a throwing tool aborts the rest of the batch.  The loop stands at a
\* call only when every earlier call returned (each left its one output);
\* once make_deposit or post_bond_and_propose threw, the invocation is at
\* its end with the loop still at the throwing call, no automatic proposal
\* and no explanation request has been made, the outputs of the earlier calls
\* were handed to nobody, and the deposits sent by earlier calls are still in
\* the ledger.
C38_ThrowAbortsBatch ==
    /\ (pc = "exec" /\ run.agent = "ok") =>
           ~run.caught /\ Len(outputs) = Cardinality(ExecutedBefore(idx))
    /\ (pbp.caller = "tool" /\ pbp.status = "threw" /\ pc # "pbp_done") => BatchAborted
    /\ BatchAborted =>
          /\ pc = "tail"
          /\ Call.argsOk /\ Call.name \in {"make_deposit", "post_bond_and_propose"}
          /\ ~AutoProposed
          /\ run.explain = "none"
          /\ Len(outputs) = Cardinality(ExecutedBefore(idx))
          /\ Cardinality(Sent("deposit"))
                = Cardinality({ i \in ExecutedBefore(idx) :
                                  resp.toolCalls[i].name = "make_deposit" })

\* The first call threw and the compilable build behind it was never run; or
\* a deposit threw after a deposit that was sent.
C38_Witness ==
    /\ BatchAborted
    /\ Len(resp.toolCalls) = 2
    /\ \/ idx = 1 /\ SuccessfulBuilds(resp.toolCalls) = {2} /\ builtTransactions = <<>>
       \/ /\ idx = 2 /\ Call.name = "make_deposit"
          /\ Sent("deposit") # {} /\ Len(outputs) = 1

\* The step is an onProposalEvents call (the clock stands still during it);
\* hook' records its executed count, and with that count 0 its reset field
\* tells whether the deleted count was positive.
EventsCall == hook'.kind = "events" /\ hook'.before = dcaState /\ now' = now
StepFlagsCleared(st) ==
    /\ ~st.proposalPosted /\ ~st.proposalBuilt /\ ~st.depositConfirmed
    /\ st.proposalSubmitHash = Null /\ st.proposalSubmitMs = 0

CacheUnchanged ==
    /\ triggerCache.cached = triggerCache.last.cachedBefore
    /\ triggerCache.value = triggerCache.last.valueBefore
\* The answer is a non-2xx status, a text that is not JSON, or triggers that
\* sanitizeInferredTriggers rejects.
AnswerFails(answer) ==
    \/ ~answer.ok
    \/ answer.text = "garbage"
    \/ answer.text = "json" /\ ~sanitizeInferredTriggers(answer.isArray, answer.raw).ok
Guarded(call) == call.text = "" \/ ~call.key

\* C40: the trigger-inference cache.  A getPriceTriggers call without the
\* commitment text or the API key returns [] and neither sends a request nor
\* writes the cache.  A call that passes that guard for a text with an entry
\* returns the entry without a request, and for a text without one sends a
\* request.  An answer that fails makes the call throw and leaves the cache
\* as it was; any other answer is cached under the text and returned (an
\* empty text as []).  An entry, once written, is never removed.
C40_TriggerCache ==
    /\ [](LET l == triggerCache.last
          IN  /\ (l.kind = "call" /\ Guarded(l)) =>
                    l.returned = <<>> /\ ~l.sent /\ CacheUnchanged
              /\ (l.kind = "call" /\ ~Guarded(l) /\ l.text \in l.cachedBefore) =>
                    l.returned = l.valueBefore[l.text] /\ ~l.sent /\ CacheUnchanged
              /\ (l.kind = "call" /\ ~Guarded(l) /\ l.text \notin l.cachedBefore) =>
                    l.sent /\ CacheUnchanged
              /\ (l.kind = "answer" /\ AnswerFails(l.answer)) =>
                    l.threw /\ CacheUnchanged
              /\ (l.kind = "answer" /\ ~AnswerFails(l.answer)) =>
                    /\ ~l.threw
                    /\ l.text \in triggerCache.cached
                    /\ triggerCache.value[l.text] = l.returned
                    /\ l.answer.text = "empty" => l.returned = <<>>)
    /\ [][triggerCache.cached \subseteq triggerCache'.cached]_vars

\* A call for a text whose two inferred triggers are cached got them back
\* without a request, while the other text has no
\* entry.
C40_Witness ==
    LET l == triggerCache.last
    IN  /\ l.kind = "call" /\ l.key /\ l.text = "A"
        /\ "A" \in l.cachedBefore /\ Len(l.returned) = 2 /\ ~l.sent
        /\ triggerCache.cached = {"A"}
        /\ triggerCache.inflight = [t \in CommitmentTexts |-> 0]

====
